---- MODULE Spec2Model ----
(***************************************************************************)
(* A model of unpyc3.py, a decompiler for CPython 3.7 bytecode.            *)
(*                                                                         *)
(* The state is one decompilation: the code object (decoded instruction    *)
(* sequence, line map, flags, name tables), the annotations the analysis   *)
(* passes computed, the top-level SuiteDecompiler (cursor, operand stack,  *)
(* output suite, pending assignment chain, pending-branch stack), the      *)
(* objects handlers mutate through shared references (the heap), and the   *)
(* rendered text.  One action is one dispatch of SuiteDecompiler.run's     *)
(* loop at the top level; the child decompilers a handler creates and runs *)
(* are part of that handler and are evaluated by the recursive operator    *)
(* run.                                                                    *)
(*                                                                         *)
(* Conventions.  An Address is its instruction index (0-based, as in the   *)
(* source); None is NoneAddr.  Its byte offset is 2 * index (3.7 wordcode, *)
(* no EXTENDED_ARG in the modelled streams).  Operands of jumps are byte   *)
(* offsets, as in the bytecode.  Text is a sequence of tokens; a rendered  *)
(* line is [lvl, text].  Python object identity is the field "id" of a     *)
(* value: the table slot of a name or constant, or the instruction whose   *)
(* handler built the object (no instruction is dispatched twice on one     *)
(* operand stack).  Statements carry "at", the index of the instruction    *)
(* whose handler appended them (bookkeeping: the source has no such        *)
(* field).  A Python exception is a non-empty "exc" in a handler's result: *)
(* nothing in the source catches one, so it ends the whole run.            *)
(***************************************************************************)
EXTENDS Integers, Sequences, FiniteSets, TLC

VARIABLES code, pc, cursor, dec, world, out

vars == <<code, pc, cursor, dec, world, out>>

(***************************************************************************)
(* Bounds of the model.                                                    *)
(***************************************************************************)
\* longest straight-line instruction stream drawn by InitStraight
MaxLen == 4

\* deepest nesting of context managers drawn by InitWith
MaxWith == 2

\* the tests of an if / elif chain
MaxIf == 2

\* the operands of a chain of one boolean operator
MaxBool == 3

\* the operands of a comparison chain
MaxCmp == 3

\* the except clauses of a try statement
MaxExc == 2

\* the statements of the body of a while loop
MaxBody == 2

\* the names of the target of a for loop
MaxTarget == 2

\* longest instruction stream with arbitrary jumps drawn by InitJump
MaxJump == 3

\* the passes of the loop of run the model follows in a stream of InitJump
MaxPasses == 8

\* longest array of bytes drawn by InitWalk (three operand bytes at most in
\* one item: the model's integers have 32 bits, Python's are unbounded)
MaxBytes == 6

\* longest stream of instructions, before the return of None, drawn by InitRaw
MaxRaw == 2

\* the operands of the outermost operator of an expression drawn by InitExpr
\* that are operators themselves
MaxInner == 1

\* the statements of the body of a function drawn by InitDecl
MaxDecl == 2

\* the statements of a module drawn by InitDoc
MaxDoc == 2

\* the instructions of the arm of an if that run scans for an else
MaxScan == 3

\* the instructions of an arm of an if with an else drawn by InitArms
MaxArm == 2
\* the operators (not, and, or) of an expression tree handed to SPyNot
MaxOps == 2
\* the targets of a chained assignment
MaxChain == 3
\* the depth of the operand stack driven by the calls of SpecStack
MaxStack == 4

\* the longest stream find_jumps is stepped through
MaxFind == 3

(***************************************************************************)
(* Opcode tables (module level of unpyc3.py and the opcode module of 3.7). *)
(***************************************************************************)
stmt_opcodes ==
    {"SETUP_LOOP", "BREAK_LOOP", "CONTINUE_LOOP", "SETUP_FINALLY", "END_FINALLY",
     "SETUP_EXCEPT", "POP_EXCEPT", "SETUP_WITH", "POP_BLOCK", "STORE_FAST",
     "DELETE_FAST", "STORE_DEREF", "DELETE_DEREF", "STORE_GLOBAL", "DELETE_GLOBAL",
     "STORE_NAME", "DELETE_NAME", "STORE_ATTR", "DELETE_ATTR", "IMPORT_NAME",
     "IMPORT_FROM", "RETURN_VALUE", "YIELD_VALUE", "RAISE_VARARGS", "STORE_SUBSCR",
     "DELETE_SUBSCR"}

pop_jump_if_opcodes == {"POP_JUMP_IF_TRUE", "POP_JUMP_IF_FALSE"}

else_jump_opcodes ==
    {"JUMP_FORWARD", "RETURN_VALUE", "JUMP_ABSOLUTE", "SETUP_LOOP", "RAISE_VARARGS",
     "POP_TOP"}

for_jump_opcodes == {"GET_ITER", "FOR_ITER", "GET_ANEXT"}

unpack_stmt_opcodes ==
    {"STORE_NAME", "STORE_FAST", "STORE_SUBSCR", "STORE_GLOBAL", "STORE_DEREF",
     "STORE_ATTR"}

unpack_terminators == stmt_opcodes \ unpack_stmt_opcodes

EXPR_OPC ==
    {"LOAD_ATTR", "LOAD_GLOBAL", "LOAD_NAME", "LOAD_CONST", "LOAD_FAST", "LOAD_DEREF",
     "BINARY_SUBSCR", "BUILD_LIST", "CALL_FUNCTION", "BINARY_SUBTRACT", "BINARY_ADD",
     "BINARY_MULTIPLY", "BINARY_TRUE_DIVIDE", "BINARY_MODULO", "BINARY_OR",
     "BINARY_XOR", "BINARY_AND", "BINARY_FLOOR_DIVIDE", "BINARY_MATRIX_MULTIPLY",
     "BINARY_LSHIFT", "BINARY_RSHIFT", "COMPARE_OP", "UNARY_NEGATIVE", "BINARY_POWER",
     "UNARY_INVERT", "UNARY_POSITIVE", "UNARY_NOT", "CALL_METHOD", "BUILD_TUPLE",
     "BUILD_SET", "BUILD_MAP", "BUILD_SLICE"}

\* dis.hasjrel and dis.hasjabs of CPython 3.7
hasjrel ==
    {"FOR_ITER", "JUMP_FORWARD", "SETUP_LOOP", "SETUP_EXCEPT", "SETUP_FINALLY",
     "SETUP_WITH", "SETUP_ASYNC_WITH"}

hasjabs ==
    {"JUMP_IF_FALSE_OR_POP", "JUMP_IF_TRUE_OR_POP", "JUMP_ABSOLUTE",
     "POP_JUMP_IF_FALSE", "POP_JUMP_IF_TRUE", "CONTINUE_LOOP"}

\* opcode.cmp_op of CPython 3.7
cmp_op ==
    <<"<", "<=", "==", "!=", ">", ">=", "in", "not in", "is", "is not",
      "exception match", "BAD">>

(***************************************************************************)
(* Address: navigation over the decoded instruction sequence.              *)
(***************************************************************************)
NoneAddr == -1

\* SuiteDecompiler.END_NOW, as a value a handler returns
END_NOW == -2

NumInstr(c) == Len(c.instr_seq)

\* Code.__getitem__: an Address, or None outside the sequence
CodeGetItem(c, i) == IF 0 <= i /\ i < NumInstr(c) THEN i ELSE NoneAddr

\* Address.__getitem__: self.code[self.index + index]
AddrGetItem(c, a, k) == CodeGetItem(c, a + k)

\* Address.opcode; "<None>" stands for the attribute of None
opcode(c, a) == IF a = CodeGetItem(c, a) /\ a # NoneAddr THEN c.instr_seq[a + 1].op ELSE "<None>"

\* Address.arg
oparg(c, a) == IF a = CodeGetItem(c, a) /\ a # NoneAddr THEN c.instr_seq[a + 1].arg ELSE 0

\* Address.addr: the byte offset of the instruction
ByteAddr(a) == 2 * a

\* Code.address: the Address at a byte offset (instr_map)
CodeAddress(c, off) == IF off % 2 = 0 THEN CodeGetItem(c, off \div 2) ELSE NoneAddr

\* Address.jump
jump(c, a) ==
    IF opcode(c, a) \in hasjrel THEN CodeAddress(c, ByteAddr(a + 1) + oparg(c, a))
    ELSE IF opcode(c, a) \in hasjabs THEN CodeAddress(c, oparg(c, a))
    ELSE NoneAddr

\* Address.__lt__: other is None, or the index is smaller
AddrLt(a, b) == b = NoneAddr \/ a < b

\* a.addr in a.code.linemap
InLinemap(c, a) == ByteAddr(a) \in c.linemap

\* Address.is_continue_jump
is_continue_jump(c, a) ==
    /\ opcode(c, a) \in {"POP_JUMP_IF_TRUE", "POP_JUMP_IF_FALSE", "JUMP_ABSOLUTE"}
    /\ \/ opcode(c, jump(c, a)) = "FOR_ITER"
       \/ opcode(c, AddrGetItem(c, jump(c, a), -1)) = "SETUP_LOOP"

\* Address.is_statement
is_statement(c, a) ==
    IF \/ opcode(c, a) \in stmt_opcodes
       \/ opcode(c, a) \in {"JUMP_ABSOLUTE", "JUMP_FORWARD"} /\ InLinemap(c, a)
    THEN TRUE
    ELSE IF opcode(c, a) = "POP_TOP"
    THEN ~ (/\ AddrGetItem(c, a, -1) # NoneAddr
            /\ opcode(c, AddrGetItem(c, a, -1)) \in {"JUMP_ABSOLUTE", "JUMP_FORWARD", "ROT_TWO"})
    ELSE IF opcode(c, a) \in pop_jump_if_opcodes
    THEN jump(c, a) = AddrGetItem(c, a, 1)
    ELSE FALSE

RECURSIVE SeekLoop(_, _, _, _, _)
SeekLoop(c, a, ops, inc, end) ==
    IF a = NoneAddr \/ a = end THEN NoneAddr
    ELSE IF opcode(c, a) \in ops THEN a
    ELSE SeekLoop(c, AddrGetItem(c, a, inc), ops, inc, end)

\* Address.seek: the nearest Address from self[increment] on whose opcode is in
\* `ops`, or None when `end` or the edge of the stream comes first
seek(c, a, ops, inc, end) ==
    IF a = end THEN NoneAddr ELSE SeekLoop(c, AddrGetItem(c, a, inc), ops, inc, end)

seek_back(c, a, ops, end) == seek(c, a, ops, -1, end)

seek_forward(c, a, ops, end) == seek(c, a, ops, 1, end)

RECURSIVE seek_stmt(_, _, _)
\* Address.seek_stmt: the first statement boundary from self on, before `end`
seek_stmt(c, a, end) ==
    IF a = NoneAddr \/ ~ (end = NoneAddr \/ a < end) THEN NoneAddr
    ELSE IF is_statement(c, a) THEN a
    ELSE seek_stmt(c, AddrGetItem(c, a, 1), end)

(***************************************************************************)
(* Code.find_else and Code.find_jumps: the jump classification that        *)
(* Code.__init__ computes before any instruction is decompiled.            *)
(***************************************************************************)
\* a local of find_jumps that no statement has assigned yet
UNBOUND == -3

\* the message of an attribute read on None
AttributeErrorNone == "AttributeError: 'NoneType' object has no attribute 'opcode'"

\* Address.jump raises KeyError in Code.address when the target is no
\* instruction boundary
BadJump(c) ==
    \E a \in 0..(NumInstr(c) - 1) :
        opcode(c, a) \in hasjrel \cup hasjabs /\ jump(c, a) = NoneAddr

RECURSIVE find_else_raises(_, _)

\* the exception that ends the loop of Code.find_else at or after address a,
\* "" when it ends normally: self.address(arg) raises KeyError when arg is no
\* instruction offset, jump_addr[-1].opcode reads the attribute of None when a
\* conditional jump targets the first instruction, addr[1] + arg adds to None
\* when JUMP_FORWARD is the last instruction
find_else_raises(c, a) ==
    IF a >= NumInstr(c) THEN ""
    ELSE IF /\ opcode(c, a) \in pop_jump_if_opcodes \cup {"JUMP_ABSOLUTE"}
            /\ CodeAddress(c, oparg(c, a)) = NoneAddr
    THEN "KeyError"
    ELSE IF opcode(c, a) \in pop_jump_if_opcodes /\ CodeAddress(c, oparg(c, a)) = 0
    THEN AttributeErrorNone
    ELSE IF opcode(c, a) = "JUMP_FORWARD" /\ AddrGetItem(c, a, 1) = NoneAddr
    THEN "TypeError: unsupported operand type(s) for +: 'NoneType' and 'int'"
    ELSE IF opcode(c, a) = "JUMP_FORWARD" /\ jump(c, a) = NoneAddr
    THEN "KeyError"
    ELSE find_else_raises(c, a + 1)

\* Address.__gt__ is the reflected __lt__ of the other side
AddrGt(a, b) == a = NoneAddr \/ b < a

\* one step of the loop of find_else over the address a, j = a.jump(); jumps
\* maps a target (index + 1) to the conditional jump registered for it
find_else_step(c, a, jumps, j) ==
    IF opcode(c, a) \in pop_jump_if_opcodes
    THEN IF \/ opcode(c, AddrGetItem(c, j, -1)) \in else_jump_opcodes
            \/ opcode(c, j) = "FOR_ITER"
         THEN [jumps EXCEPT ![j + 1] = a] ELSE jumps
    ELSE IF opcode(c, a) \in {"JUMP_ABSOLUTE", "JUMP_FORWARD"}
    THEN IF jumps[j + 1] # NoneAddr THEN [jumps EXCEPT ![a + 1] = jumps[j + 1]] ELSE jumps
    ELSE jumps

RECURSIVE find_else_from(_, _, _)
find_else_from(c, a, jumps) ==
    IF a >= NumInstr(c) THEN jumps
    ELSE find_else_from(c, a + 1, find_else_step(c, a, jumps, jump(c, a)))

\* Code.find_else: self.else_jumps = set(jumps.values())
\* set(jumps.values())
JumpsValues(jumps) == {jumps[k] : k \in DOMAIN jumps} \ {NoneAddr}

\* Code.find_else
find_else(c) == JumpsValues(find_else_from(c, 0, [i \in 1..NumInstr(c) |-> NoneAddr]))

\* what proc_chained returns, with the world it leaves
Chained(w, addr) == [w |-> w, addr |-> addr]

RECURSIVE proc_chained(_, _, _)
RECURSIVE proc_chained_loop(_, _, _, _)

\* proc_chained, the branch recursing on a conditional jump inside the chain;
\* r is what the recursive call returned
proc_chained_nested(c, addr, r) ==
    IF r.w.exc # "" THEN r
    ELSE proc_chained_loop(c,
            IF opcode(c, AddrGetItem(c, jump(c, r.addr), -1)) = "JUMP_FORWARD"
            THEN [r.w EXCEPT !.ternaryop_jumps = @ \cup {r.addr}] ELSE r.w,
            addr, AddrGetItem(c, r.addr, 1))

\* the `while True` loop of proc_chained
proc_chained_loop(c, w, addr, curaddr) ==
    IF curaddr = NoneAddr THEN Chained([w EXCEPT !.exc = AttributeErrorNone], addr)
    ELSE IF opcode(c, curaddr) \notin pop_jump_if_opcodes
    THEN proc_chained_loop(c, w, addr, AddrGetItem(c, curaddr, 1))
    ELSE IF /\ opcode(c, AddrGetItem(c, curaddr, -3)) = "DUP_TOP"
            /\ opcode(c, AddrGetItem(c, curaddr, -2)) = "ROT_THREE"
    THEN IF oparg(c, curaddr) = oparg(c, addr)
         THEN proc_chained_loop(c, [w EXCEPT !.inner_chained_jumps = @ \cup {curaddr}],
                                curaddr, AddrGetItem(c, curaddr, 1))
         ELSE proc_chained_loop(c, w, addr, AddrGetItem(c, curaddr, 1))
    ELSE IF AddrGetItem(c, curaddr, 2) = jump(c, addr)
    THEN Chained([w EXCEPT !.end_chained_jumps = @ \cup {curaddr}], curaddr)
    ELSE proc_chained_nested(c, addr, proc_chained(c, w, curaddr))

\* find_jumps.proc_chained: classify the jumps of a chained comparison that
\* starts at the conditional jump addr; returns the jump that ends the chain
proc_chained(c, w, addr) ==
    IF /\ AddrGetItem(c, addr, -3) # NoneAddr
       /\ opcode(c, AddrGetItem(c, addr, -1)) = "COMPARE_OP"
       /\ opcode(c, AddrGetItem(c, addr, -2)) = "ROT_THREE"
       /\ opcode(c, AddrGetItem(c, addr, -3)) = "DUP_TOP"
    THEN proc_chained_loop(c, [w EXCEPT !.start_chained_jumps = @ \cup {addr}],
                           addr, AddrGetItem(c, addr, 1))
    ELSE Chained(w, addr)

\* the second half of pj_start_true
pj_start_true_tail(c, addr, next_addr) ==
    IF /\ AddrGetItem(c, addr, 4) # NoneAddr
       /\ opcode(c, AddrGetItem(c, addr, 2)) = "POP_TOP"
       /\ opcode(c, next_addr) \in {"JUMP_ABSOLUTE", "JUMP_FORWARD"}
    THEN IF opcode(c, addr) = "POP_JUMP_IF_FALSE"
         THEN AddrGetItem(c, addr, 4) ELSE AddrGetItem(c, addr, 3)
    ELSE next_addr

\* pj_start_true, when the instruction after addr is next_addr
pj_start_true_next(c, addr, next_addr) ==
    IF opcode(c, next_addr) = "JUMP_FORWARD" /\ InLinemap(c, next_addr) THEN next_addr
    ELSE IF opcode(c, next_addr) = "JUMP_FORWARD" /\ oparg(c, next_addr) = 0
    THEN pj_start_true_tail(c, next_addr, AddrGetItem(c, next_addr, 1))
    ELSE pj_start_true_tail(c, addr, next_addr)

\* find_jumps.pj_start_true: where the true suite of the conditional jump
\* addr starts
pj_start_true(c, addr) == pj_start_true_next(c, addr, AddrGetItem(c, addr, 1))

\* the assert of pj_start_true fails
pj_start_true_asserts(c, addr) ==
    /\ ~ (/\ opcode(c, AddrGetItem(c, addr, 1)) = "JUMP_FORWARD"
          /\ \/ InLinemap(c, AddrGetItem(c, addr, 1))
             \/ oparg(c, AddrGetItem(c, addr, 1)) = 0)
    /\ AddrGetItem(c, addr, 4) # NoneAddr
    /\ opcode(c, AddrGetItem(c, addr, 2)) = "POP_TOP"
    /\ opcode(c, AddrGetItem(c, addr, 1)) \in {"JUMP_ABSOLUTE", "JUMP_FORWARD"}
    /\ opcode(c, addr) = "POP_JUMP_IF_FALSE"
    /\ opcode(c, AddrGetItem(c, addr, 3)) \notin {"JUMP_ABSOLUTE", "JUMP_FORWARD"}

RECURSIVE count_returns(_, _, _, _)
\* find_jumps.count_returns: cnt is the local c
count_returns(c, starta, enda, cnt) ==
    IF starta = NoneAddr \/ enda = NoneAddr \/ starta > enda THEN cnt
    ELSE IF opcode(c, starta) = "JUMP_ABSOLUTE"
    THEN count_returns(c, AddrGetItem(c, starta, 1), enda, cnt)
    ELSE IF jump(c, starta) # NoneAddr
    THEN IF jump(c, starta) < starta
         THEN count_returns(c, AddrGetItem(c, starta, 1), enda, cnt - 1)
         ELSE count_returns(c, AddrGetItem(c, jump(c, starta), 1), enda, cnt)
    ELSE count_returns(c, AddrGetItem(c, starta, 1), enda,
                       IF opcode(c, starta) = "RETURN_VALUE" THEN cnt + 1 ELSE cnt)

\* the membership test of a list of addresses
InList(list, a) == \E k \in 1..Len(list) : list[k] = a

\* find_start_of_true_suit: the conditional jump curaddr leaves the condition
\* that starts at addr and ends before next_stmt
LeavesCondition(c, addr, next_stmt, curaddr) ==
    \/ oparg(c, curaddr) > ByteAddr(next_stmt)
    \/ oparg(c, curaddr) < ByteAddr(addr)
    \/ /\ AddrGetItem(c, curaddr, 2) = jump(c, curaddr)
       /\ opcode(c, AddrGetItem(c, curaddr, 1)) = "JUMP_FORWARD"
       /\ AddrGt(jump(c, AddrGetItem(c, curaddr, 1)), next_stmt)

\* find_start_of_true_suit: the two tests that end the search at curaddr,
\* cj = curaddr.jump()
EndsSearch(c, w, curaddr, cj) ==
    \/ Len(w.statement_jumps) > 0
         /\ oparg(c, curaddr) >= ByteAddr(w.statement_jumps[Len(w.statement_jumps)])
    \/ Len(w.loops) > 0 /\ cj >= w.loops[Len(w.loops)][3]
    \/ /\ opcode(c, cj) = "JUMP_ABSOLUTE"
       /\ is_continue_jump(c, cj)
       /\ InLinemap(c, cj)
       /\ opcode(c, AddrGetItem(c, cj, -1)) = "JUMP_FORWARD"
       /\ opcode(c, AddrGetItem(c, cj, -2)) # "POP_TOP"

RECURSIVE find_start_of_true_suit(_, _, _, _, _, _, _)
\* find_jumps.find_start_of_true_suit(curaddr) with its locals last_jump and
\* x; addr and next_stmt are the variables of find_jumps it closes over
find_start_of_true_suit(c, w, addr, next_stmt, curaddr, last_jump, x) ==
    IF curaddr = NoneAddr \/ ~ AddrLt(curaddr, next_stmt) THEN last_jump
    ELSE IF ~ (/\ opcode(c, curaddr) \in pop_jump_if_opcodes
               /\ LeavesCondition(c, addr, next_stmt, curaddr))
    THEN find_start_of_true_suit(c, w, addr, next_stmt, AddrGetItem(c, curaddr, 1),
                                 last_jump, x)
    ELSE IF last_jump = NoneAddr
    THEN find_start_of_true_suit(c, w, addr, next_stmt, AddrGetItem(c, curaddr, 1), curaddr,
            IF oparg(c, curaddr) < ByteAddr(addr) /\ is_continue_jump(c, next_stmt)
            THEN curaddr ELSE x)
    ELSE IF oparg(c, last_jump) = oparg(c, curaddr)
    THEN find_start_of_true_suit(c, w, addr, next_stmt, AddrGetItem(c, curaddr, 1),
                                 curaddr, x)
    ELSE IF /\ x # NoneAddr
            /\ oparg(c, x) = oparg(c, last_jump)
            /\ ~ EndsSearch(c, w, curaddr, jump(c, curaddr))
    THEN find_start_of_true_suit(c, w, addr, next_stmt, AddrGetItem(c, curaddr, 1),
                                 curaddr, x)
    ELSE last_jump

\* `while x < to: if x.opcode in pop_jump_if_opcodes and x.arg == arg`: some
\* conditional jump from `from` up to `to` has the target arg
SameTargetBetween(c, from, to, arg) ==
    \E a \in from..(to - 1) : opcode(c, a) \in pop_jump_if_opcodes /\ oparg(c, a) = arg

\* what a branch of the loop of find_jumps leaves: the world and the index i
At(w, i) == [w |-> w, i |-> i]

\* jt and end_addr of the SETUP_LOOP branch
LoopEnd(jt, end_addr) == [jt |-> jt, end_addr |-> end_addr]

RECURSIVE LoopEndScan(_, _, _, _, _)
\* SETUP_LOOP branch, first loop: a conditional jump before the loop that
\* lands inside it moves jt and end_addr
LoopEndScan(c, addr, curaddr, jt, end_addr) ==
    IF curaddr = NoneAddr \/ ~ AddrLt(curaddr, addr) THEN LoopEnd(jt, end_addr)
    ELSE IF /\ opcode(c, curaddr) \in pop_jump_if_opcodes
            /\ ByteAddr(addr) < oparg(c, curaddr)
            /\ oparg(c, curaddr) < ByteAddr(end_addr)
    THEN LoopEnd(AddrGetItem(c, jump(c, curaddr), -1), AddrGetItem(c, jump(c, curaddr), -2))
    ELSE LoopEndScan(c, addr, AddrGetItem(c, curaddr, 1), jt, end_addr)

RECURSIVE IsForLoop(_, _, _, _)
\* SETUP_LOOP branch, second loop: isforloop
IsForLoop(c, curaddr, end_addr, x) ==
    IF curaddr = NoneAddr \/ (end_addr # NoneAddr /\ curaddr >= end_addr)
         \/ opcode(c, curaddr) \in stmt_opcodes
    THEN FALSE
    ELSE IF x > 0 /\ opcode(c, curaddr) = "GET_ITER"
    THEN IsForLoop(c, AddrGetItem(c, curaddr, 1), end_addr, x - 1)
    ELSE IF opcode(c, curaddr) \in for_jump_opcodes THEN TRUE
    ELSE IF opcode(c, curaddr) = "JUMP_ABSOLUTE"
    THEN opcode(c, jump(c, curaddr)) \in for_jump_opcodes
    ELSE IsForLoop(c, AddrGetItem(c, curaddr, 1), end_addr,
                   IF opcode(c, curaddr) = "MAKE_FUNCTION" THEN x + 1 ELSE x)

RECURSIVE EndCond(_, _, _, _)
\* SETUP_LOOP branch, third loop: end_cond, the index of the last conditional
\* jump of the loop condition that leaves the loop
EndCond(c, curaddr, end_addr, end_cond) ==
    IF curaddr = NoneAddr \/ ~ AddrLt(curaddr, end_addr) \/ opcode(c, curaddr) \in stmt_opcodes
    THEN end_cond
    ELSE EndCond(c, AddrGetItem(c, curaddr, 1), end_addr,
            IF /\ opcode(c, curaddr) \in pop_jump_if_opcodes
               /\ \/ opcode(c, jump(c, curaddr)) = "POP_BLOCK"
                  \/ jump(c, curaddr) = end_addr
            THEN curaddr ELSE end_cond)

\* the conditional jump curaddr guards a conditional expression
GuardsTernary(c, curaddr) ==
    /\ opcode(c, AddrGetItem(c, jump(c, curaddr), -1)) = "JUMP_FORWARD"
    /\ ~ SameTargetBetween(c, curaddr + 1, jump(c, curaddr), oparg(c, curaddr))

RECURSIVE LoopCondJumps(_, _, _, _)
\* SETUP_LOOP branch, fourth loop, after proc_chained returned r
LoopCondJumps_chained(c, dto, r) ==
    LoopCondJumps(c,
        IF r.w.exc = "" /\ GuardsTernary(c, r.addr)
        THEN [r.w EXCEPT !.ternaryop_jumps = @ \cup {r.addr}] ELSE r.w,
        AddrGetItem(c, r.addr, 1), dto)

\* SETUP_LOOP branch, fourth loop: the jumps of the loop condition before dto
LoopCondJumps(c, w, curaddr, dto) ==
    IF w.exc # "" \/ curaddr = NoneAddr \/ ~ AddrLt(curaddr, dto) THEN w
    ELSE IF opcode(c, curaddr) \notin pop_jump_if_opcodes
    THEN LoopCondJumps(c, w, AddrGetItem(c, curaddr, 1), dto)
    ELSE LoopCondJumps_chained(c, dto, proc_chained(c, w, curaddr))

\* a loop whose iteration leaves the index at the SETUP_LOOP it started from
SETUP_LOOP_found_again(c, w, addr, end_cond, le, i) ==
    At([w EXCEPT !.loops = Append(@, <<addr, end_cond,
                     IF opcode(c, le.end_addr) = "POP_BLOCK" THEN le.end_addr ELSE le.jt>>)],
       addr - 1)

\* SETUP_LOOP branch, the end: self.loops.append((addr.index, end_cond, jt.index))
SETUP_LOOP_found(c, w, addr, end_cond, le, i) ==
    At([w EXCEPT !.loops = Append(@, <<addr, end_cond,
                     IF opcode(c, le.end_addr) = "POP_BLOCK" THEN le.end_addr ELSE le.jt>>)],
       i)

\* SETUP_LOOP branch once end_cond is known
SETUP_LOOP_cond(c, w, addr, le, end_cond) ==
    IF end_cond > 0
    THEN SETUP_LOOP_found(c,
            LoopCondJumps(c, [w EXCEPT !.statement_jumps = Append(@, end_cond)],
                          AddrGetItem(c, addr, 1), end_cond),
            addr, end_cond, le, end_cond)
    ELSE SETUP_LOOP_found(c, w, addr, end_cond, le, addr)

\* SETUP_LOOP branch once jt and end_addr are known
SETUP_LOOP_end(c, w, addr, le) ==
    SETUP_LOOP_cond(c, w, addr, le,
        IF IsForLoop(c, AddrGetItem(c, addr, 1), le.end_addr, 0) THEN -1
        ELSE EndCond(c, AddrGetItem(c, addr, 1), le.end_addr, 0))

\* find_jumps, the branch of SETUP_LOOP
find_jumps_SETUP_LOOP(c, w, addr) ==
    SETUP_LOOP_end(c, w, addr,
        LoopEndScan(c, addr, 0, jump(c, addr), AddrGetItem(c, jump(c, addr), -1)))

\* the locals of the pop-jump branch that an iteration of its loop changes
St(w, dto, qcjumps) == [w |-> w, dto |-> dto, qcjumps |-> qcjumps]

\* statement_jumps.append(a)
AppendStatementJump(w, a) == [w EXCEPT !.statement_jumps = Append(@, a)]

\* ternaryop_jumps.append(a)
\* a ternary jump that is recorded as a statement jump as well
AppendTernaryJump_both(w, a) ==
    [w EXCEPT !.ternaryop_jumps = @ \cup {a}, !.statement_jumps = Append(@, a)]

AppendTernaryJump(w, a) == [w EXCEPT !.ternaryop_jumps = @ \cup {a}]

RECURSIVE NextPopJump(_, _, _)
\* `curjump = curjump[1]; while curjump < lim: if curjump.opcode in
\* pop_jump_if_opcodes: break`, from a = curjump[1]
NextPopJump(c, a, lim) ==
    IF a = NoneAddr \/ ~ AddrLt(a, lim) \/ opcode(c, a) \in pop_jump_if_opcodes THEN a
    ELSE NextPopJump(c, AddrGetItem(c, a, 1), lim)

\* the fixed variables of the pop-jump branch
Branch(addr, next_stmt, lastjump, start_true) ==
    [addr |-> addr, next_stmt |-> next_stmt, lastjump |-> lastjump,
     start_true |-> start_true]

\* `while c > 0 and len(qcjumps)`: the last n of qcjumps become statement
\* jumps, the last first; then self.qcjumps takes the rest
RECURSIVE MoveQcjumps(_, _, _, _)
MoveQcjumps(w, dto, qcjumps, n) ==
    IF n > 0 /\ Len(qcjumps) > 0
    THEN MoveQcjumps(AppendStatementJump(w, qcjumps[Len(qcjumps)]), dto,
                     SubSeq(qcjumps, 1, Len(qcjumps) - 1), n - 1)
    ELSE St([w EXCEPT !.qcjumps = @ \o qcjumps], dto, <<>>)

\* lines 740-758: starta and c from x, then count_returns(starta, enda) - c
CountFrom(c, w, dto, qcjumps, starta, enda, less) ==
    IF starta = UNBOUND
    THEN St([w EXCEPT !.exc = "UnboundLocalError: local variable 'starta' referenced before assignment"],
            dto, qcjumps)
    ELSE MoveQcjumps([w EXCEPT !.starta = starta], dto, qcjumps,
                     count_returns(c, starta, enda, 0) - less)

\* lines 737-763, enda = Address(self, self.loops[-1][2])
CountReturns(c, k, w, dto, qcjumps, x, enda) ==
    IF ~ (opcode(c, x) # "JUMP_ABSOLUTE" \/ oparg(c, x) < ByteAddr(enda))
    THEN CountFrom(c, w, dto, qcjumps, w.starta, enda, 0)
    ELSE IF opcode(c, x) = "JUMP_ABSOLUTE" /\ x # k.next_stmt
    THEN IF oparg(c, x) < ByteAddr(x)
         THEN CountFrom(c, w, dto, qcjumps, AddrGetItem(c, x, 1), enda, 2)
         ELSE CountFrom(c, w, dto, qcjumps, jump(c, x), enda, 1)
    ELSE IF opcode(c, x) = "JUMP_FORWARD"
    THEN CountFrom(c, w, dto, qcjumps, jump(c, x), enda, 1)
    ELSE IF opcode(c, x) = "RETURN_VALUE"
    THEN CountFrom(c, w, dto, qcjumps, AddrGetItem(c, x, 1), enda, 2)
    ELSE CountFrom(c, w, dto, qcjumps, AddrGetItem(c, x, 1), enda, 1)

\* lines 734-765: what becomes of the pending qcjumps
Qcjumps(c, k, w, curjump, dto, qcjumps, x) ==
    IF ~ (InList(w.statement_jumps, curjump) /\ Len(qcjumps) > 0) THEN St(w, dto, qcjumps)
    ELSE IF ~ (/\ curjump = k.lastjump
               /\ \/ Len(w.statement_jumps) < 2
                  \/ ~ is_continue_jump(c, w.statement_jumps[Len(w.statement_jumps) - 1]))
    THEN St([w EXCEPT !.qcjumps = @ \o qcjumps], dto, <<>>)
    ELSE IF Len(w.loops) = 0
    THEN St([w EXCEPT !.exc = "IndexError: list index out of range"], dto, qcjumps)
    ELSE IF Len(w.statement_jumps) > 1
    THEN St([w EXCEPT !.exc = "NameError: name 'anda' is not defined"], dto, qcjumps)
    ELSE CountReturns(c, k, w, dto, qcjumps, x, w.loops[Len(w.loops)][3])

\* lines 702-733: the jump curjump when no earlier test placed it
Unplaced(c, k, w, curjump, dto, qcjumps, x) ==
    IF ~ InLinemap(c, pj_start_true(c, curjump))
    THEN Qcjumps(c, k,
            IF curjump = k.lastjump /\ opcode(c, k.next_stmt) = "RETURN_VALUE"
            THEN AppendTernaryJump(w, curjump) ELSE w,
            curjump, dto, qcjumps, x)
    ELSE IF InList(w.statement_jumps, curjump) THEN Qcjumps(c, k, w, curjump, dto, qcjumps, x)
    ELSE IF is_continue_jump(c, curjump)
    THEN IF /\ curjump # k.lastjump
            /\ oparg(c, curjump) # oparg(c, k.lastjump)
            /\ opcode(c, k.start_true) = "JUMP_ABSOLUTE"
            /\ oparg(c, k.start_true) = oparg(c, curjump)
            /\ ~ \E a \in (curjump + 1)..(k.lastjump - 1) :
                    /\ opcode(c, a) \in pop_jump_if_opcodes
                    /\ oparg(c, a) > oparg(c, k.lastjump)
         THEN Qcjumps(c, k, w, curjump, k.lastjump, Append(qcjumps, curjump), x)
         ELSE Qcjumps(c, k, AppendStatementJump(w, curjump), curjump, dto, qcjumps, x)
    ELSE IF /\ \/ opcode(c, x) = "JUMP_FORWARD"
               \/ opcode(c, x) = "JUMP_ABSOLUTE" /\ oparg(c, x) > oparg(c, curjump)
            /\ SameTargetBetween(c, curjump + 1, k.lastjump + 1, oparg(c, curjump))
    THEN Qcjumps(c, k, w, curjump, dto, qcjumps, x)
    ELSE Qcjumps(c, k, AppendStatementJump(w, curjump), curjump, dto, qcjumps, x)

\* lines 678-694: curjump jumps over a JUMP_FORWARD x inside the statement
OverJumpForward(c, k, w, curjump, dto, qcjumps, x) ==
    IF SameTargetBetween(c, curjump + 1, x, oparg(c, curjump)) THEN St(w, dto, qcjumps)
    ELSE IF AddrGt(jump(c, x), k.next_stmt) \/ InLinemap(c, x)
    THEN St(AppendStatementJump(w, curjump), dto, qcjumps)
    ELSE St(AppendTernaryJump(w, curjump),
            IF AddrGt(x, dto) THEN AddrGetItem(c, jump(c, x), -2) ELSE dto, qcjumps)

\* lines 677-765: the tests on the jump curjump, x = curjump.jump()[-1]
Classify(c, k, w, curjump, dto, qcjumps, x) ==
    IF /\ ByteAddr(curjump) < oparg(c, curjump)
       /\ oparg(c, curjump) <= ByteAddr(k.next_stmt)
       /\ opcode(c, x) = "JUMP_FORWARD"
       /\ opcode(c, AddrGetItem(c, x, -1)) # "POP_TOP"
    THEN OverJumpForward(c, k, w, curjump, dto, qcjumps, x)
    ELSE IF oparg(c, curjump) = ByteAddr(k.start_true) THEN St(w, k.lastjump, qcjumps)
    ELSE IF ByteAddr(curjump) < oparg(c, curjump) /\ oparg(c, curjump) < ByteAddr(k.start_true)
    THEN St(w, IF AddrGt(x, dto) THEN x ELSE dto, qcjumps)
    ELSE IF ~ (dto <= curjump) THEN St(w, dto, qcjumps)
    ELSE IF pj_start_true_asserts(c, curjump)
    THEN St([w EXCEPT !.exc = "AssertionError"], dto, qcjumps)
    ELSE Unplaced(c, k, w, curjump, dto, qcjumps, x)

RECURSIVE TrueSuiteJumps(_, _, _, _, _, _)
\* the loop of lines 675-770 after an iteration left st
TrueSuiteJumps_next(c, k, curjump, st) ==
    TrueSuiteJumps(c, k, st.w, NextPopJump(c, AddrGetItem(c, curjump, 1), k.start_true),
                   st.dto, st.qcjumps)

\* the loop of lines 675-770 after proc_chained returned r
TrueSuiteJumps_chained(c, k, dto, qcjumps, r) ==
    IF r.w.exc # "" THEN r.w
    ELSE TrueSuiteJumps_next(c, k, r.addr,
            Classify(c, k, r.w, r.addr, dto, qcjumps,
                     AddrGetItem(c, jump(c, r.addr), -1)))

\* lines 675-770: `while curjump < start_true`
TrueSuiteJumps(c, k, w, curjump, dto, qcjumps) ==
    IF w.exc # "" \/ curjump = NoneAddr \/ ~ AddrLt(curjump, k.start_true) THEN w
    ELSE TrueSuiteJumps_chained(c, k, dto, qcjumps, proc_chained(c, w, curjump))

\* lines 776-792: the tests on the jump curjump when no true suite was found
ClassifyPlain(c, w, next_stmt, curjump, x) ==
    IF ByteAddr(curjump) < oparg(c, curjump) /\ oparg(c, curjump) <= ByteAddr(next_stmt)
    THEN IF /\ opcode(c, x) = "JUMP_FORWARD"
            /\ ~ SameTargetBetween(c, curjump + 1, x, oparg(c, curjump))
         THEN IF InLinemap(c, x) THEN AppendStatementJump(w, curjump)
              ELSE AppendTernaryJump(w, curjump)
         ELSE w
    ELSE IF oparg(c, curjump) > ByteAddr(next_stmt) /\ c.name = "<lambda>"
    THEN AppendTernaryJump(w, curjump)
    ELSE w

RECURSIVE ConditionJumps(_, _, _, _)
\* the loop of lines 774-797 after proc_chained returned r
ConditionJumps_chained(c, next_stmt, r) ==
    IF r.w.exc # "" THEN r.w
    ELSE ConditionJumps(c,
            ClassifyPlain(c, r.w, next_stmt, r.addr, AddrGetItem(c, jump(c, r.addr), -1)),
            next_stmt, NextPopJump(c, AddrGetItem(c, r.addr, 1), next_stmt))

\* lines 774-797: `while curjump < next_stmt`
ConditionJumps(c, w, next_stmt, curjump) ==
    IF w.exc # "" \/ curjump = NoneAddr \/ ~ AddrLt(curjump, next_stmt) THEN w
    ELSE ConditionJumps_chained(c, next_stmt, proc_chained(c, w, curjump))

\* the pop-jump branch once lastjump is known
pop_jump_lastjump(c, w, addr, next_stmt, lastjump) ==
    IF c.name \in {"<listcomp>", "<setcomp>", "<dictcomp>", "<genexpr>"}
    THEN At(ConditionJumps(c, AppendStatementJump(w, lastjump), next_stmt, addr),
            next_stmt - 1)
    ELSE IF lastjump = NoneAddr
    THEN At(ConditionJumps(c, w, next_stmt, addr), next_stmt - 1)
    ELSE IF pj_start_true_asserts(c, lastjump) THEN At([w EXCEPT !.exc = "AssertionError"], addr)
    ELSE At(TrueSuiteJumps(c, Branch(addr, next_stmt, lastjump, pj_start_true(c, lastjump)),
                           w, addr, addr, <<>>),
            pj_start_true(c, lastjump) - 1)

\* the pop-jump branch once next_stmt is known
pop_jump_next_stmt(c, w, addr, next_stmt) ==
    IF next_stmt = NoneAddr
    THEN At([w EXCEPT !.exc = "TypeError: '<' not supported between instances of 'NoneType' and 'NoneType'"],
            addr)
    ELSE IF c.name = "<lambda>"
    THEN At(ConditionJumps(c, w, next_stmt, addr), next_stmt - 1)
    ELSE pop_jump_lastjump(c, w, addr, next_stmt,
            find_start_of_true_suit(c, w, addr, next_stmt, addr, NoneAddr, NoneAddr))

\* one iteration of the loop of find_jumps, at the address addr
find_jumps_at(c, w, addr) ==
    IF jump(c, addr) = NoneAddr THEN At(w, addr)
    ELSE IF opcode(c, addr) = "SETUP_LOOP" THEN find_jumps_SETUP_LOOP(c, w, addr)
    ELSE IF opcode(c, addr) \notin pop_jump_if_opcodes THEN At(w, addr)
    ELSE IF jump(c, addr) = AddrGetItem(c, addr, 1) THEN At(AppendStatementJump(w, addr), addr)
    ELSE pop_jump_next_stmt(c, w, addr, seek_stmt(c, addr, NoneAddr))

RECURSIVE find_jumps_from(_, _, _)
\* `i = i + 1` and the next iteration
find_jumps_next(c, r) == find_jumps_from(c, r.w, r.i + 1)

\* the loop of find_jumps from the index i
find_jumps_from(c, w, i) ==
    IF w.exc # "" \/ i >= NumInstr(c) THEN w
    ELSE find_jumps_next(c, find_jumps_at(c, w, i))

\* Code.find_jumps
find_jumps(c, w) == find_jumps_from(c, w, 0)

\* Code.__init__: find_else, then find_jumps
Analysed(c, w) ==
    IF find_else_raises(c, 0) # "" THEN [w EXCEPT !.exc = find_else_raises(c, 0)]
    ELSE IF BadJump(c) THEN [w EXCEPT !.exc = "KeyError"]
    ELSE find_jumps(c, [w EXCEPT !.else_jumps = find_else(c)])

(***************************************************************************)
(* Expression nodes.  Every node is a record with its class in k, its      *)
(* identity in id and the class attribute precedence.                      *)
(***************************************************************************)
\* Python's None where a field holds an object or None
PyNone == [k |-> "None"]

\* the identity of an object built by the handler of instruction `at`
MkId(site, at) == <<site, at>>

\* a constant of co_consts: its Python type and its repr
ConstVal(ty, repr) == [ty |-> ty, repr |-> repr]

PyName(id, name) == [k |-> "PyName", id |-> id, precedence |-> 100, name |-> name]

\* PyConst.__init__: precedence 14 for an int (bool is an int), else 100
PyConst(id, val) ==
    [k |-> "PyConst", id |-> id,
     precedence |-> IF val.ty \in {"int", "bool"} THEN 14 ELSE 100, val |-> val]

PyTuple(id, values) == [k |-> "PyTuple", id |-> id, precedence |-> 0, values |-> values]

\* an operator string inside PyCompare.complist
CmpOp(s) == [k |-> "op", s |-> s]

PyCompare(id, complist) ==
    [k |-> "PyCompare", id |-> id, precedence |-> 6, complist |-> complist]

\* PyCompare.chain
chain(id, self, other) == PyCompare(id, self.complist \o Tail(other.complist))

\* cond.complist[1].startswith('is')
IsCompareIs(e) == e.k = "PyCompare" /\ e.complist[2].s \in {"is", "is not"}

\* the default of allow_collision in PyBooleanAnd.__init__ and PyBooleanOr.__init__
DefaultCollision(left, right) ==
    IF left.k = "PyNot" THEN ~ IsCompareIs(right)
    ELSE IF right.k = "PyNot" THEN ~ IsCompareIs(left)
    ELSE FALSE

PyBooleanAnd(id, left, right, allow_collision) ==
    [k |-> "PyBooleanAnd", id |-> id, precedence |-> 4, left |-> left, right |-> right,
     allow_collision |-> allow_collision]

PyBooleanOr(id, left, right, allow_collision) ==
    [k |-> "PyBooleanOr", id |-> id, precedence |-> 3, left |-> left, right |-> right,
     allow_collision |-> allow_collision]

\* obj_maker(cond, jcond, allow_collision) with obj_maker one of the two classes
BoolMaker(cls, id, left, right, allow_collision) ==
    IF cls = "PyBooleanAnd" THEN PyBooleanAnd(id, left, right, allow_collision)
    ELSE PyBooleanOr(id, left, right, allow_collision)

\* the class made from ('UNARY_NOT', 'Not', 'not {}', 5)
PyNot(id, operand) == [k |-> "PyNot", id |-> id, precedence |-> 5, operand |-> operand]

\* unary_ops: the class names, in capitals
UnaryOps == {"NOT", "POSITIVE", "NEGATIVE", "INVERT"}

\* binary_ops: the operator names
BinaryOps ==
    {"POWER", "MULTIPLY", "FLOOR_DIVIDE", "TRUE_DIVIDE", "MODULO", "ADD", "SUBTRACT",
     "SUBSCR", "LSHIFT", "RSHIFT", "AND", "XOR", "OR", "MATRIX_MULTIPLY"}

\* 'UNARY_' + the name of the class
UnaryOpcode(op) ==
    CASE op = "NOT" -> "UNARY_NOT"
      [] op = "POSITIVE" -> "UNARY_POSITIVE"
      [] op = "NEGATIVE" -> "UNARY_NEGATIVE"
      [] op = "INVERT" -> "UNARY_INVERT"

\* 'BINARY_' + op
BinaryOpcode(op) ==
    CASE op = "POWER" -> "BINARY_POWER"
      [] op = "MULTIPLY" -> "BINARY_MULTIPLY"
      [] op = "FLOOR_DIVIDE" -> "BINARY_FLOOR_DIVIDE"
      [] op = "TRUE_DIVIDE" -> "BINARY_TRUE_DIVIDE"
      [] op = "MODULO" -> "BINARY_MODULO"
      [] op = "ADD" -> "BINARY_ADD"
      [] op = "SUBTRACT" -> "BINARY_SUBTRACT"
      [] op = "SUBSCR" -> "BINARY_SUBSCR"
      [] op = "LSHIFT" -> "BINARY_LSHIFT"
      [] op = "RSHIFT" -> "BINARY_RSHIFT"
      [] op = "AND" -> "BINARY_AND"
      [] op = "XOR" -> "BINARY_XOR"
      [] op = "OR" -> "BINARY_OR"
      [] op = "MATRIX_MULTIPLY" -> "BINARY_MATRIX_MULTIPLY"

UnaryOpcodes == {UnaryOpcode(op) : op \in UnaryOps}

BinaryOpcodes == {BinaryOpcode(op) : op \in BinaryOps}

\* unary_ops without UNARY_NOT: the pattern, as the token before the operand
UnaryPattern(op) ==
    CASE op = "POSITIVE" -> <<"+">>
      [] op = "NEGATIVE" -> <<"-">>
      [] op = "INVERT" -> <<"~">>

\* a class made from ('UNARY_POSITIVE', ..., 13), ('UNARY_NEGATIVE', ..., 13) or
\* ('UNARY_INVERT', ..., 13)
PyUnaryOp(id, op, operand) ==
    [k |-> "PyUnaryOp", id |-> id, precedence |-> 13, op |-> op, operand |-> operand]

\* binary_ops: the precedence of the operator classes
BinaryPrecedence(op) ==
    CASE op = "POWER" -> 14
      [] op \in {"MULTIPLY", "FLOOR_DIVIDE", "TRUE_DIVIDE", "MODULO", "MATRIX_MULTIPLY"} -> 12
      [] op \in {"ADD", "SUBTRACT"} -> 11
      [] op = "SUBSCR" -> 15
      [] op \in {"LSHIFT", "RSHIFT"} -> 10
      [] op = "AND" -> 9
      [] op = "XOR" -> 8
      [] op = "OR" -> 7

\* binary_ops: the pattern, as the tokens before, between and after the operands
BinaryPattern(op) ==
    CASE op = "POWER" -> <<"**">>
      [] op = "MULTIPLY" -> <<"*">>
      [] op = "FLOOR_DIVIDE" -> <<"//">>
      [] op = "TRUE_DIVIDE" -> <<"/">>
      [] op = "MODULO" -> <<"%">>
      [] op = "ADD" -> <<"+">>
      [] op = "SUBTRACT" -> <<"-">>
      [] op = "SUBSCR" -> <<"[">>
      [] op = "LSHIFT" -> <<"<<">>
      [] op = "RSHIFT" -> <<">>">>
      [] op = "AND" -> <<"&">>
      [] op = "XOR" -> <<"^">>
      [] op = "OR" -> <<"|">>
      [] op = "MATRIX_MULTIPLY" -> <<"@">>

\* a class made from binary_ops (PySubscript for SUBSCR)
PyBinaryOp(id, op, left, right) ==
    [k |-> "PyBinaryOp", id |-> id, precedence |-> BinaryPrecedence(op), op |-> op,
     left |-> left, right |-> right]

PyIfElse(id, cond, true_expr, false_expr) ==
    [k |-> "PyIfElse", id |-> id, precedence |-> 2, cond |-> cond,
     true_expr |-> true_expr, false_expr |-> false_expr]

\* PyCallFunction with positional arguments only
PyCallFunction(id, func, args) ==
    [k |-> "PyCallFunction", id |-> id, precedence |-> 15, func |-> func, args |-> args]

RECURSIVE SPyNot(_, _)
\* SPyNot negating both sides of an and / or node and keeping its operator
SPyNot_unswapped(o, id) ==
    IF o.k = "PyNot" THEN o.operand
    ELSE IF o.k = "PyBooleanAnd" /\ o.allow_collision
    THEN PyBooleanAnd(id, SPyNot(o.left, id), SPyNot(o.right, id), TRUE)
    ELSE IF o.k = "PyBooleanOr" /\ o.allow_collision
    THEN PyBooleanOr(id, SPyNot(o.left, id), SPyNot(o.right, id), TRUE)
    ELSE PyNot(id, o)

\* SPyNot: negate, cancelling a double negation and applying De Morgan where
\* allow_collision permits
SPyNot(o, id) ==
    IF o.k = "PyNot" THEN o.operand
    ELSE IF o.k = "PyBooleanAnd" /\ o.allow_collision
    THEN PyBooleanOr(id, SPyNot(o.left, id), SPyNot(o.right, id), TRUE)
    ELSE IF o.k = "PyBooleanOr" /\ o.allow_collision
    THEN PyBooleanAnd(id, SPyNot(o.left, id), SPyNot(o.right, id), TRUE)
    ELSE PyNot(id, o)

\* PyName.__eq__ and PyConst.__eq__ compare by value; every other class by identity
PyEq(a, b) ==
    IF a.k = "PyName" THEN b.k = "PyName" /\ a.name = b.name
    ELSE IF a.k = "PyConst" THEN b.k = "PyConst" /\ a.val = b.val
    ELSE a.k = b.k /\ a = b

(***************************************************************************)
(* __str__ of the expression classes, as token sequences.                  *)
(***************************************************************************)
RECURSIVE Join(_, _)
\* sep.join(parts) for token sequences
Join(parts, sep) ==
    IF parts = <<>> THEN <<>>
    ELSE IF Len(parts) = 1 THEN parts[1]
    ELSE parts[1] \o sep \o Join(Tail(parts), sep)

Paren(toks) == <<"(">> \o toks \o <<")">>

RECURSIVE Str(_)
RECURSIVE wrap(_, _)
\* PyExpr.wrap, and PyTuple.wrap which ignores the condition
wrap(e, condition) ==
    IF e.k = "PyTuple" THEN Str(e)
    ELSE IF condition THEN Paren(Str(e))
    ELSE Str(e)

\* PyBinaryOp.wrap_left
wrap_left(e) == wrap(e.left, e.left.precedence < e.precedence)

\* PyBinaryOp.wrap_right, and PySubscript.wrap_right which never parenthesises
wrap_right(e) ==
    IF e.k = "PyBinaryOp" /\ e.op = "SUBSCR" THEN Str(e.right)
    ELSE wrap(e.right, e.right.precedence <= e.precedence)

Str(e) ==
    CASE e.k = "PyName" -> <<e.name>>
      [] e.k = "PyConst" -> <<e.val.repr>>
      [] e.k = "PyTuple" ->
            IF e.values = <<>> THEN <<"(", ")">>
            ELSE IF Len(e.values) = 1
            THEN <<"(">> \o wrap(e.values[1], e.values[1].precedence <= 0) \o <<",", ")">>
            ELSE Paren(Join([i \in 1..Len(e.values) |->
                                wrap(e.values[i], e.values[i].precedence <= 0)], <<",">>))
      [] e.k = "PyCompare" ->
            Join([i \in 1..Len(e.complist) |->
                    IF i % 2 = 0 THEN <<e.complist[i].s>>
                    ELSE wrap(e.complist[i], e.complist[i].precedence <= 6)], <<>>)
      [] e.k = "PyBooleanAnd" -> wrap_left(e) \o <<"and">> \o wrap_right(e)
      [] e.k = "PyBooleanOr" -> wrap_left(e) \o <<"or">> \o wrap_right(e)
      [] e.k = "PyNot" -> <<"not">> \o wrap(e.operand, e.operand.precedence < e.precedence)
      [] e.k = "PyUnaryOp" ->
            UnaryPattern(e.op) \o wrap(e.operand, e.operand.precedence < e.precedence)
      [] e.k = "PyBinaryOp" ->
            wrap_left(e) \o BinaryPattern(e.op) \o wrap_right(e)
              \o (IF e.op = "SUBSCR" THEN <<"]">> ELSE <<>>)
      [] e.k = "PyIfElse" ->
            wrap(e.true_expr, e.true_expr.precedence <= e.precedence) \o <<"if">>
              \o wrap(e.cond, e.cond.precedence <= e.precedence) \o <<"else">>
              \o wrap(e.false_expr, e.false_expr.precedence < e.precedence)
      [] e.k = "PyCallFunction" ->
            wrap(e.func, e.func.precedence < e.precedence)
              \o Paren(Join([i \in 1..Len(e.args) |->
                               wrap(e.args[i], e.args[i].precedence <= 0)], <<",">>))

(***************************************************************************)
(* Stack: the operand stack with its per-identity counts.                  *)
(***************************************************************************)
NewStack == [_stack |-> <<>>, _counts |-> <<>>]

\* Stack.get_count
get_count(s, obj) == IF obj.id \in DOMAIN s._counts THEN s._counts[obj.id] ELSE 0

\* Stack.set_count
set_count(s, obj, val) ==
    IF val # 0
    THEN [s EXCEPT !._counts = (obj.id :> val) @@ s._counts]
    ELSE [s EXCEPT !._counts = [i \in (DOMAIN s._counts) \ {obj.id} |-> s._counts[i]]]

\* Stack.__contains__
StackContains(s, obj) == get_count(s, obj) > 0

\* Stack.push of one value
push(s, val) ==
    [set_count(s, val, get_count(s, val) + 1) EXCEPT !._stack = Append(s._stack, val)]

\* a pop1 that leaves the count of the popped value as it is
pop1_val_uncounted(s, val) ==
    [ok |-> TRUE, val |-> val,
     stack |-> [s EXCEPT !._stack = SubSeq(s._stack, 1, Len(s._stack) - 1)]]

\* Stack.pop1 on a non-empty list: the value leaves the list and its count drops
pop1_val(s, val) ==
    [ok |-> TRUE, val |-> val,
     stack |-> [set_count(s, val, get_count(s, val) - 1)
                   EXCEPT !._stack = SubSeq(s._stack, 1, Len(s._stack) - 1)]]

\* Stack.pop1: ok is FALSE where the source raises Exception('Empty stack popped!')
pop1(s) ==
    IF s._stack = <<>> THEN [ok |-> FALSE, val |-> PyNone, stack |-> s]
    ELSE pop1_val(s, s._stack[Len(s._stack)])

RECURSIVE popn(_, _)

popn_rest(p, r) == [ok |-> r.ok, vals |-> Append(r.vals, p.val), stack |-> r.stack]

popn_popped(p, count) ==
    IF ~ p.ok THEN [ok |-> FALSE, vals |-> <<>>, stack |-> p.stack]
    ELSE popn_rest(p, popn(p.stack, count - 1))

\* Stack.pop(count): the popped values, deepest first
popn(s, count) ==
    IF count = 0 THEN [ok |-> TRUE, vals |-> <<>>, stack |-> s]
    ELSE popn_popped(pop1(s), count)

\* Stack.peek(): ok is FALSE where self._stack[-1] raises IndexError
peek(s) ==
    IF s._stack = <<>> THEN [ok |-> FALSE, vals |-> <<>>, stack |-> s]
    ELSE [ok |-> TRUE, vals |-> <<s._stack[Len(s._stack)]>>, stack |-> s]

\* Stack.peek(count): self._stack[-count:], the whole list when count is 0 or
\* exceeds its length
peekn(s, count) ==
    [ok |-> TRUE,
     vals |-> IF count = 0 \/ count >= Len(s._stack) THEN s._stack
              ELSE SubSeq(s._stack, Len(s._stack) - count + 1, Len(s._stack)),
     stack |-> s]

(***************************************************************************)
(* Statements and the heap.  A statement a handler keeps mutating after it *)
(* was pushed or added (Unpack, WithStatement, TryStatement, ForStatement) *)
(* lives in world.heap under its identity; the stack and the suites hold   *)
(* a Ref to it.                                                            *)
(***************************************************************************)
\* a reference to heap[id]; at is the instruction whose handler made the object
Ref(cls, id) ==
    [k |-> "Ref", cls |-> cls, id |-> id, precedence |-> 50, at |-> id[2]]

\* Suite: the list of statements of a block
Suite(statements) == [k |-> "Suite", statements |-> statements]

\* bool(x) of None, of a Suite (Suite.__bool__) or of another object
Truthy(x) == x.k # "None" /\ (x.k = "Suite" => x.statements # <<>>)

SimpleStatement(at, val) == [k |-> "SimpleStatement", at |-> at, val |-> val]

AssignStatement(at, ch) == [k |-> "AssignStatement", at |-> at, chain |-> ch]

\* DocString(string), made by get_suite from the statement built at `at`
DocString(at, string) == [k |-> "DocString", at |-> at, string |-> string]

IfStatement(at, cond, true_suite, false_suite) ==
    [k |-> "IfStatement", at |-> at, cond |-> cond, true_suite |-> true_suite,
     false_suite |-> false_suite]

WhileStatement(at, cond, body, else_body) ==
    [k |-> "WhileStatement", at |-> at, cond |-> cond, body |-> body,
     else_body |-> else_body]

\* TryStatement.__init__; next_start_except is the attribute COMPARE_OP sets
\* on the statement, UNBOUND until then
TryStatement(try_suite) ==
    [k |-> "TryStatement", try_suite |-> try_suite, except_clauses |-> <<>>,
     else_suite |-> PyNone, next_start_except |-> UNBOUND]

\* FinallyStatement.__init__
FinallyStatement(at, try_suite, finally_suite) ==
    [k |-> "FinallyStatement", at |-> at, try_suite |-> try_suite,
     finally_suite |-> finally_suite]

\* ForStatement.__init__; dest and body are attributes set later (store,
\* FOR_ITER)
ForStatement(iterable) ==
    [k |-> "ForStatement", iterable |-> iterable, else_body |-> PyNone, is_async |-> FALSE,
     dest |-> [k |-> "Unbound"], body |-> [k |-> "Unbound"]]

\* Unpack.__init__
Unpack(val, length) == [k |-> "Unpack", val |-> val, length |-> length, dests |-> <<>>]

\* the text of the diagnostic statement POP_TOP appends
PopTopDiagnostic == <<"\"\"\"unpyc3: decompilation error POP_TOP while empty stack\"\"\"">>

\* stmt.val.startswith("return"): no name of the modelled programs begins so
StartsWithReturn(val) == val # <<>> /\ val[1] = "return"

(***************************************************************************)
(* Results of a handler: the decompiler and the world after it, the        *)
(* address it returned (NoneAddr for None) and the exception it raised.    *)
(***************************************************************************)
Ok(d, w) == [d |-> d, w |-> w, nxt |-> NoneAddr, exc |-> ""]

Goto(d, w, a) == [d |-> d, w |-> w, nxt |-> a, exc |-> ""]

Raise(d, w, e) == [d |-> d, w |-> w, nxt |-> NoneAddr, exc |-> e]

\* how one pass through the loop of run ends: at `addr`, leaving the loop or not
Pass(d, w, addr, exc, brk) == [d |-> d, w |-> w, addr |-> addr, exc |-> exc, brk |-> brk]

EmptyStackPopped == "Exception: Empty stack popped!"

\* Suite.add_statement on the decompiler's suite
add_statement(d, stmt) == [d EXCEPT !.suite.statements = Append(@, stmt)]

\* SuiteDecompiler.write: the formatted line becomes a SimpleStatement
write(d, at, line) == add_statement(d, SimpleStatement(at, line))

\* SuiteDecompiler.__init__
SuiteDecompiler(c, start_addr, end_addr, stack) ==
    [start_addr |-> start_addr, end_addr |-> end_addr, stack |-> stack,
     suite |-> Suite(<<>>), assignment_chain |-> <<>>, popjump_stack |-> <<>>,
     scan_for_else |-> FALSE, find_end_finally |-> FALSE,
     expression_in_result |-> FALSE,
     end_block |-> IF end_addr # NoneAddr THEN AddrGetItem(c, end_addr, -1)
                   ELSE NumInstr(c) - 1]

\* the classes that inherit PyExpr.store and PyExpr.on_pop
ExprKinds ==
    {"PyName", "PyConst", "PyTuple", "PyCompare", "PyBooleanAnd", "PyBooleanOr",
     "PyNot", "PyUnaryOp", "PyBinaryOp", "PyIfElse", "PyCallFunction"}

\* format(x) of a value a handler writes into a line
Fmt(v) == IF v.k \in ExprKinds THEN Str(v) ELSE <<"<object>">>

\* Code.names[i], Code.varnames[i], Code.consts[i]: the objects Code.__init__ made
CodeName(c, i) == PyName(MkId("names", i), c.names[i + 1])

CodeVarname(c, i) == PyName(MkId("varnames", i), c.varnames[i + 1])

\* Code.derefnames[i]: the cell variables, then the free variables
CodeDerefname(c, i) == PyName(MkId("derefnames", i), (c.co_cellvars \o c.co_freevars)[i + 1])

\* Code.iscellvar
iscellvar(c, i) == i < Len(c.co_cellvars)

CodeConst(c, i) == PyConst(MkId("consts", i), c.consts[i + 1])

\* isinstance(value, PyConst) and value.val is None
IsConstNone(v) == v.k = "PyConst" /\ v.val.ty = "NoneType"

\* name in self.globals, by PyName.__eq__
InGlobals(w, name) == \E i \in 1..Len(w.globals) : PyEq(w.globals[i], name)

\* a declare_global without the test `name not in self.globals`
declare_global_untested(w, name) == [w EXCEPT !.globals = Append(@, name)]

\* Code.declare_global
declare_global(w, name) ==
    IF InGlobals(w, name) THEN w ELSE [w EXCEPT !.globals = Append(@, name)]

\* name in self.nonlocals, by PyName.__eq__
InNonlocals(w, name) == \E i \in 1..Len(w.nonlocals) : PyEq(w.nonlocals[i], name)

\* Code.declare_nonlocal
declare_nonlocal(w, name) ==
    IF InNonlocals(w, name) THEN w ELSE [w EXCEPT !.nonlocals = Append(@, name)]

\* Code.ensure_global: declared when a surrounding code object has the name as a
\* local or a global (c.parent_names; empty for a code object without parent)
ensure_global(c, w, name) ==
    IF name.name \in c.parent_names THEN declare_global(w, name) ELSE w

\* heap[id] = obj
HeapSet(w, id, obj) == [w EXCEPT !.heap = (id :> obj) @@ w.heap]

\* the decompiler with the stack a pop left
Popped(d, p) == [d EXCEPT !.stack = p.stack]

RECURSIVE store(_, _, _, _)

\* a PyExpr.store without the test `self not in dec.stack`: every store appends
\* its statement
PyExpr_store_untested(d1, w, at, val, ch) ==
    Ok([add_statement(d1, AssignStatement(at, Append(ch, val)))
           EXCEPT !.assignment_chain = <<>>], w)

\* a PyExpr.store that leaves the written chain pending
PyExpr_store_pending(d1, w, at, val, ch) ==
    IF ~ StackContains(d1.stack, val)
    THEN Ok([add_statement(d1, AssignStatement(at, Append(ch, val)))
                EXCEPT !.assignment_chain = ch], w)
    ELSE Ok([d1 EXCEPT !.assignment_chain = ch], w)

\* PyExpr.store: extend the pending chain; once the value is no longer on the
\* stack, append one AssignStatement and reset the chain
PyExpr_store(d1, w, at, val, ch) ==
    IF ~ StackContains(d1.stack, val)
    THEN Ok([add_statement(d1, AssignStatement(at, Append(ch, val)))
                EXCEPT !.assignment_chain = <<>>], w)
    ELSE Ok([d1 EXCEPT !.assignment_chain = ch], w)

\* Unpack.store after self.dests.append(dest): when all targets are there, push
\* the unpacked value and store the tuple of targets into it
Unpack_store(d1, w, at, val, u1) ==
    IF Len(u1.dests) = u1.length
    THEN store([d1 EXCEPT !.stack = push(@, u1.val)], HeapSet(w, val.id, u1), at,
               PyTuple(MkId("Unpack.store", at), u1.dests))
    ELSE Ok(d1, HeapSet(w, val.id, u1))

\* the first clause instead of the last one gets the name
TryStatement_store_first(d1, w, val, t, dest) ==
    IF t.except_clauses = <<>> THEN Raise(d1, w, "IndexError: list index out of range")
    ELSE Ok(d1, HeapSet(w, val.id, [t EXCEPT !.except_clauses[1].name = dest]))

\* TryStatement.store: self.except_clauses[-1][1] = dest
TryStatement_store(d1, w, val, t, dest) ==
    IF t.except_clauses = <<>> THEN Raise(d1, w, "IndexError: list index out of range")
    ELSE Ok(d1, HeapSet(w, val.id, [t EXCEPT !.except_clauses[Len(t.except_clauses)].name = dest]))

\* val.store(self, dest), by the class of val
store_val(d1, w, at, dest, val) ==
    IF val.k \in ExprKinds
    THEN PyExpr_store(d1, w, at, val, Append(d1.assignment_chain, dest))
    ELSE IF val.k = "Ref" /\ val.cls \in {"PyListComp", "PySetComp", "PyDictComp", "PyGenExpr", "PyLambda"}
    THEN PyExpr_store(d1, w, at, val, Append(d1.assignment_chain, dest))
    ELSE IF val.k = "Ref" /\ val.cls = "DefStatement"
    THEN Ok(add_statement(d1, val), HeapSet(w, val.id, [w.heap[val.id] EXCEPT !.name = dest]))
    ELSE IF val.k = "Ref" /\ val.cls = "Unpack"
    THEN Unpack_store(d1, w, at, val, [w.heap[val.id] EXCEPT !.dests = Append(@, dest)])
    ELSE IF val.k = "Ref" /\ val.cls = "ForStatement"
    THEN Ok(d1, HeapSet(w, val.id, [w.heap[val.id] EXCEPT !.dest = dest]))
    ELSE IF val.k = "Ref" /\ val.cls = "WithStatement"
    THEN Ok(d1, HeapSet(w, val.id, [w.heap[val.id] EXCEPT !.with_name = dest]))
    ELSE IF val.k = "Ref" /\ val.cls = "TryStatement"
    THEN TryStatement_store(d1, w, val, w.heap[val.id], dest)
    ELSE Raise(d1, w, "AttributeError: store")

\* SuiteDecompiler.store after val = self.stack.pop()
store_popped(d, w, at, dest, p) ==
    IF ~ p.ok THEN Raise(d, w, EmptyStackPopped)
    ELSE store_val(Popped(d, p), w, at, dest, p.val)

\* SuiteDecompiler.store: pop the value and call its store method
store(d, w, at, dest) == store_popped(d, w, at, dest, pop1(d.stack))

(***************************************************************************)
(* Opcode handlers of SuiteDecompiler without control flow.                *)
(***************************************************************************)
LOAD_NAME(c, d, w, addr) ==
    Ok([d EXCEPT !.stack = push(@, CodeName(c, oparg(c, addr)))], w)

LOAD_FAST(c, d, w, addr) ==
    Ok([d EXCEPT !.stack = push(@, CodeVarname(c, oparg(c, addr)))], w)

LOAD_GLOBAL(c, d, w, addr) ==
    Ok([d EXCEPT !.stack = push(@, CodeName(c, oparg(c, addr)))],
       ensure_global(c, w, CodeName(c, oparg(c, addr))))

\* LOAD_CONST (no constant of the modelled code objects is Ellipsis)
LOAD_CONST(c, d, w, addr) ==
    Ok([d EXCEPT !.stack = push(@, CodeConst(c, oparg(c, addr)))], w)

STORE_NAME(c, d, w, addr) == store(d, w, addr, CodeName(c, oparg(c, addr)))

STORE_FAST(c, d, w, addr) == store(d, w, addr, CodeVarname(c, oparg(c, addr)))

STORE_GLOBAL(c, d, w, addr) ==
    store(d, declare_global(w, CodeName(c, oparg(c, addr))), addr,
          CodeName(c, oparg(c, addr)))

\* DELETE_GLOBAL: declare_global is looked up on the decompiler, which has no
\* attribute of that name (it is a method of Code)
DELETE_GLOBAL(c, d, w, addr) ==
    Raise(d, w, "AttributeError: 'SuiteDecompiler' object has no attribute 'declare_global'")

LOAD_DEREF(c, d, w, addr) ==
    Ok([d EXCEPT !.stack = push(@, CodeDerefname(c, oparg(c, addr)))], w)

\* the nonlocal declaration of STORE_DEREF and DELETE_DEREF
DerefDeclared(c, w, addr) ==
    IF iscellvar(c, oparg(c, addr)) THEN w
    ELSE declare_nonlocal(w, CodeDerefname(c, oparg(c, addr)))

STORE_DEREF(c, d, w, addr) ==
    store(d, DerefDeclared(c, w, addr), addr, CodeDerefname(c, oparg(c, addr)))

DELETE_DEREF(c, d, w, addr) ==
    Ok(write(d, addr, <<"del">> \o Str(CodeDerefname(c, oparg(c, addr)))),
       DerefDeclared(c, w, addr))

DELETE_NAME(c, d, w, addr) ==
    Ok(write(d, addr, <<"del">> \o Str(CodeName(c, oparg(c, addr)))), w)

DELETE_FAST(c, d, w, addr) ==
    Ok(write(d, addr, <<"del">> \o Str(CodeVarname(c, oparg(c, addr)))), w)

\* self.stack.pop().on_pop(self): PyExpr.on_pop writes the expression,
\* PyStatement.on_pop does nothing, Unpack has no on_pop
on_pop(d1, w, addr, val) ==
    IF val.k \in ExprKinds THEN Ok(write(d1, addr, Str(val)), w)
    ELSE IF val.k = "Ref" /\ val.cls = "Unpack" THEN Raise(d1, w, "AttributeError: on_pop")
    ELSE Ok(d1, w)

POP_TOP_popped(d, w, addr, p) == on_pop(Popped(d, p), w, addr, p.val)

\* POP_TOP: the one handler that tests for an empty stack
POP_TOP(c, d, w, addr) ==
    IF Len(d.stack._stack) <= 0
    THEN Ok(add_statement(d, SimpleStatement(addr, PopTopDiagnostic)), w)
    ELSE POP_TOP_popped(d, w, addr, pop1(d.stack))

\* DUP_TOP: peek() indexes the list, so an empty stack raises IndexError
DUP_TOP(c, d, w, addr) ==
    IF d.stack._stack = <<>> THEN Raise(d, w, "IndexError: list index out of range")
    ELSE Ok([d EXCEPT !.stack = push(@, d.stack._stack[Len(d.stack._stack)])], w)

BUILD_TUPLE_popped(d, w, addr, p) ==
    IF ~ p.ok THEN Raise(d, w, EmptyStackPopped)
    ELSE Ok([d EXCEPT !.stack = push(p.stack, PyTuple(MkId("BUILD_TUPLE", addr), p.vals))], w)

\* BUILD_TUPLE (count <= 4, so implicit_continuation gives num_lines = 1)
BUILD_TUPLE(c, d, w, addr) == BUILD_TUPLE_popped(d, w, addr, popn(d.stack, oparg(c, addr)))

RECURSIVE PushTimes(_, _, _)
PushTimes(s, val, n) == IF n = 0 THEN s ELSE PushTimes(push(s, val), val, n - 1)

UNPACK_SEQUENCE_popped(d, w, id, count, p) ==
    IF ~ p.ok THEN Raise(d, w, EmptyStackPopped)
    ELSE Ok([d EXCEPT !.stack = PushTimes(p.stack, Ref("Unpack", id), count)],
            HeapSet(w, id, Unpack(p.val, count)))

\* UNPACK_SEQUENCE: one Unpack object, pushed count times
UNPACK_SEQUENCE(c, d, w, addr) ==
    UNPACK_SEQUENCE_popped(d, w, MkId("UNPACK_SEQUENCE", addr), oparg(c, addr), pop1(d.stack))

BINARY_popped(d, w, addr, op, p) ==
    IF ~ p.ok THEN Raise(d, w, EmptyStackPopped)
    ELSE Ok([d EXCEPT !.stack =
                push(p.stack, PyBinaryOp(MkId("BINARY", addr), op, p.vals[1], p.vals[2]))], w)

\* the handlers make_dynamic_instr builds from binary_ops: PyBinaryOp.instr
BINARY(c, d, w, addr, op) == BINARY_popped(d, w, addr, op, popn(d.stack, 2))

UNARY_NOT_popped(d, w, addr, p) ==
    IF ~ p.ok THEN Raise(d, w, EmptyStackPopped)
    ELSE Ok([d EXCEPT !.stack = push(p.stack, PyNot(MkId("UNARY_NOT", addr), p.val))], w)

\* the handler make_dynamic_instr builds for UNARY_NOT: PyUnaryOp.instr
UNARY_NOT(c, d, w, addr) == UNARY_NOT_popped(d, w, addr, pop1(d.stack))

UNARY_popped(d, w, addr, op, p) ==
    IF ~ p.ok THEN Raise(d, w, EmptyStackPopped)
    ELSE Ok([d EXCEPT !.stack = push(p.stack, PyUnaryOp(MkId("UNARY", addr), op, p.val))], w)

\* the handlers make_dynamic_instr builds for UNARY_POSITIVE, UNARY_NEGATIVE
\* and UNARY_INVERT: PyUnaryOp.instr
UNARY(c, d, w, addr, op) == UNARY_popped(d, w, addr, op, pop1(d.stack))

RAISE_VARARGS_1(d, w, addr, p) ==
    IF ~ p.ok THEN Raise(d, w, EmptyStackPopped)
    ELSE Ok(write(Popped(d, p), addr, <<"raise">> \o Fmt(p.val)), w)

RAISE_VARARGS_2(d, w, addr, p) ==
    IF ~ p.ok THEN Raise(d, w, EmptyStackPopped)
    ELSE Ok(write(Popped(d, p), addr,
                  <<"raise">> \o Fmt(p.vals[1]) \o <<"from">> \o Fmt(p.vals[2])), w)

\* RAISE_VARARGS: argc 0, 1, 2 write the statement; any other argc reaches
\* `raise Unknown`, a NameError
RAISE_VARARGS(c, d, w, addr) ==
    IF oparg(c, addr) = 0 THEN Ok(write(d, addr, <<"raise">>), w)
    ELSE IF oparg(c, addr) = 1 THEN RAISE_VARARGS_1(d, w, addr, pop1(d.stack))
    ELSE IF oparg(c, addr) = 2 THEN RAISE_VARARGS_2(d, w, addr, popn(d.stack, 2))
    ELSE Raise(d, w, "NameError: name 'Unknown' is not defined")

\* value = self.code.flags.generator and not
\* self.code[0].seek_forward({YIELD_FROM, YIELD_VALUE})
GeneratorWithoutYield(c) ==
    c.flags.generator /\ seek_forward(c, 0, {"YIELD_FROM", "YIELD_VALUE"}, NoneAddr) = NoneAddr

\* RETURN_VALUE of the constant None, outside the generator special case
RETURN_VALUE_None(c, d1, w, addr, noyield) ==
    IF AddrGetItem(c, addr, 1) # NoneAddr \/ d1.find_end_finally
    THEN IF noyield THEN Ok(write(write(d1, addr, <<"return">>), addr, <<"yield">>), w)
         ELSE Ok(write(d1, addr, <<"return">>), w)
    ELSE IF noyield /\ seek_forward(c, 0, {"RETURN_VALUE"}, addr) = NoneAddr
         THEN Ok(write(write(d1, addr, <<"return">>), addr, <<"yield">>), w)
         ELSE Ok(d1, w)

\* RETURN_VALUE after value = self.stack.pop()
RETURN_VALUE_value(c, d1, w, addr, value) ==
    IF c.flags.generator /\ IsConstNone(value) /\ AddrGetItem(c, addr, -2) = NoneAddr
    THEN Ok(add_statement(d1,
               WhileStatement(addr, PyConst(MkId("RETURN_VALUE", addr), ConstVal("bool", "False")),
                              SimpleStatement(addr, <<"yield", "None">>), PyNone)), w)
    ELSE IF IsConstNone(value)
    THEN RETURN_VALUE_None(c, d1, w, addr, GeneratorWithoutYield(c))
    ELSE IF c.flags.iterable_coroutine
    THEN Ok(write(d1, addr, <<"yield">> \o Fmt(value)), w)
    ELSE IF c.flags.generator
    THEN Ok(write(write(d1, addr, <<"return">> \o Fmt(value)), addr, <<"yield">>), w)
    ELSE Ok(write(d1, addr, <<"return">> \o Fmt(value)), w)

RETURN_VALUE_popped(c, d, w, addr, p) ==
    IF ~ p.ok THEN Raise(d, w, EmptyStackPopped)
    ELSE RETURN_VALUE_value(c, Popped(d, p), w, addr, p.val)

\* RETURN_VALUE
RETURN_VALUE(c, d, w, addr) == RETURN_VALUE_popped(c, d, w, addr, pop1(d.stack))

NOP(c, d, w, addr) == Ok(d, w)

(***************************************************************************)
(* SuiteDecompiler.run.                                                    *)
(***************************************************************************)
RECURSIVE run(_, _, _)
RECURSIVE Iterate(_, _, _, _)

(***************************************************************************)
(* The popjump stack: the pending conditions of a boolean expression, each *)
(* with the truthiness and the target of its conditional jump.             *)
(***************************************************************************)
\* an entry (truthiness, addr, cond, original_addr) of popjump_stack
PopJump(truthiness, addr, cond, original_addr) ==
    [truthiness |-> truthiness, addr |-> addr, cond |-> cond,
     original_addr |-> original_addr]

\* what one iteration of the loop of push_popjump decided: the class obj_maker
\* and the locals cond, jcond, jtruthiness and allow_collision
Merged(obj_maker, cond, jcond, jtruthiness, allow_collision) ==
    [obj_maker |-> obj_maker, cond |-> cond, jcond |-> jcond,
     jtruthiness |-> jtruthiness, allow_collision |-> allow_collision]

\* push_popjump, the branch `jaddr == addr`: both jumps have the same target
\* a merge of two jumps to one target that negates neither condition
MergeSameTarget_plain(top, jtruthiness, jcond, id) ==
    IF top.truthiness /\ jtruthiness
    THEN Merged("PyBooleanOr", top.cond, jcond, jtruthiness, FALSE)
    ELSE Merged("PyBooleanAnd", top.cond, jcond, jtruthiness, FALSE)

MergeSameTarget(top, jtruthiness, jcond, id) ==
    IF top.truthiness /\ jtruthiness
    THEN Merged("PyBooleanOr", top.cond, jcond, jtruthiness, FALSE)
    ELSE IF top.truthiness /\ ~ jtruthiness
    THEN IF IsCompareIs(top.cond)
         THEN Merged("PyBooleanOr", top.cond, SPyNot(jcond, id), TRUE, FALSE)
         ELSE Merged("PyBooleanAnd", SPyNot(top.cond, id), jcond, jtruthiness, TRUE)
    ELSE IF ~ top.truthiness /\ jtruthiness
    THEN IF IsCompareIs(jcond)
         THEN Merged("PyBooleanOr", SPyNot(top.cond, id), jcond, jtruthiness, FALSE)
         ELSE Merged("PyBooleanAnd", top.cond, SPyNot(jcond, id), FALSE, TRUE)
    ELSE Merged("PyBooleanAnd", top.cond, jcond, jtruthiness, FALSE)

\* push_popjump, the branch `addr == next_addr`: the pending jump lands right
\* after the new one
MergeNextAddr(c, top, jtruthiness, jcond, original_jaddr, id) ==
    IF top.truthiness /\ jtruthiness
    THEN IF IsCompareIs(jcond) \/ opcode(c, original_jaddr) = "JUMP_IF_TRUE_OR_POP"
         THEN Merged("PyBooleanAnd", SPyNot(top.cond, id), jcond, jtruthiness, FALSE)
         ELSE Merged("PyBooleanOr", top.cond, SPyNot(jcond, id), FALSE, TRUE)
    ELSE IF top.truthiness /\ ~ jtruthiness
    THEN Merged("PyBooleanOr", top.cond, jcond, jtruthiness, FALSE)
    ELSE IF ~ top.truthiness /\ jtruthiness
    THEN Merged("PyBooleanAnd", top.cond, jcond, jtruthiness, FALSE)
    ELSE IF IsCompareIs(top.cond)
         THEN Merged("PyBooleanAnd", top.cond, SPyNot(jcond, id), TRUE, FALSE)
         ELSE Merged("PyBooleanOr", SPyNot(top.cond, id), jcond, jtruthiness, TRUE)

\* push_popjump, lines 2268-2273: the new jcond; a jcond of the class obj_maker
\* is re-associated to the left
Fold(m, id) ==
    IF m.jcond.k = m.obj_maker
    THEN BoolMaker(m.obj_maker, id,
                   BoolMaker(m.obj_maker, id, m.cond, m.jcond.left, m.allow_collision),
                   m.jcond.right, m.allow_collision)
    ELSE BoolMaker(m.obj_maker, id, m.cond, m.jcond, m.allow_collision)

RECURSIVE push_popjump_loop(_, _, _, _, _, _, _)
\* push_popjump: the rest of the loop after an iteration decided m
push_popjump_merged(c, stack, jaddr, original_jaddr, next_addr, m) ==
    push_popjump_loop(c, SubSeq(stack, 1, Len(stack) - 1), m.jtruthiness, jaddr,
                      Fold(m, MkId("push_popjump", original_jaddr)),
                      original_jaddr, next_addr)

\* push_popjump: `while stack`, then the append
push_popjump_loop(c, stack, jtruthiness, jaddr, jcond, original_jaddr, next_addr) ==
    IF stack # <<>> /\ jaddr = stack[Len(stack)].addr
    THEN push_popjump_merged(c, stack, jaddr, original_jaddr, next_addr,
            MergeSameTarget(stack[Len(stack)], jtruthiness, jcond,
                            MkId("push_popjump", original_jaddr)))
    ELSE IF stack # <<>> /\ stack[Len(stack)].addr = next_addr
    THEN push_popjump_merged(c, stack, jaddr, original_jaddr, next_addr,
            MergeNextAddr(c, stack[Len(stack)], jtruthiness, jcond, original_jaddr,
                          MkId("push_popjump", original_jaddr)))
    ELSE Append(stack,
            PopJump(IF opcode(c, original_jaddr) = "JUMP_IF_TRUE_OR_POP"
                    THEN ~ jtruthiness ELSE jtruthiness,
                    jaddr, jcond, original_jaddr))

\* SuiteDecompiler.push_popjump, on the list popjump_stack
push_popjump(c, w, stack, jtruthiness, jaddr, jcond, original_jaddr) ==
    push_popjump_loop(c, stack, jtruthiness, jaddr, jcond, original_jaddr,
        IF original_jaddr \in w.end_chained_jumps
        THEN IF jtruthiness THEN AddrGetItem(c, original_jaddr, 3)
             ELSE AddrGetItem(c, original_jaddr, 4)
        ELSE AddrGetItem(c, original_jaddr, 1))

\* push_popjump on the decompiler d
PushPopjump(c, w, d, jtruthiness, jaddr, jcond, original_jaddr) ==
    [d EXCEPT !.popjump_stack =
        push_popjump(c, w, @, jtruthiness, jaddr, jcond, original_jaddr)]

EmptyPopjumpStack == "Exception: Attempted to pop an empty popjump stack."

\* SuiteDecompiler.pop_popjump on a non-empty list, top its last entry
pop_popjump_top(stack, top, id) ==
    [ok |-> TRUE, stack |-> SubSeq(stack, 1, Len(stack) - 1),
     cond |-> IF top.truthiness THEN SPyNot(top.cond, id) ELSE top.cond]

\* SuiteDecompiler.pop_popjump: ok is FALSE where the source raises
pop_popjump(stack, id) ==
    IF stack = <<>> THEN [ok |-> FALSE, stack |-> stack, cond |-> PyNone]
    ELSE pop_popjump_top(stack, stack[Len(stack)], id)

\* push_popjump then pop_popjump: the condition of the statement at
\* original_jaddr, with everything pending folded in
PushPop(c, w, stack, jtruthiness, jaddr, jcond, original_jaddr) ==
    pop_popjump(push_popjump(c, w, stack, jtruthiness, jaddr, jcond, original_jaddr),
                MkId("pop_popjump", original_jaddr))

\* SuiteDecompiler.popjump_stack_farthestaddr: the farthest target of the
\* pending jumps, None when there is none or when it lies beyond end_block
popjump_stack_farthestaddr(d) ==
    IF d.popjump_stack = <<>> THEN NoneAddr
    ELSE IF (CHOOSE a \in {d.popjump_stack[i].addr : i \in 1..Len(d.popjump_stack)} :
                \A i \in 1..Len(d.popjump_stack) : d.popjump_stack[i].addr <= a)
              > d.end_block
    THEN NoneAddr
    ELSE CHOOSE a \in {d.popjump_stack[i].addr : i \in 1..Len(d.popjump_stack)} :
            \A i \in 1..Len(d.popjump_stack) : d.popjump_stack[i].addr <= a

\* Address.last_loop_context: the innermost loop (start, end_cond, end)
\* around the address
LoopsAround(w, a) ==
    {i \in 1..Len(w.loops) : w.loops[i][1] <= a /\ a <= w.loops[i][3]}

last_loop_context(w, a) ==
    IF LoopsAround(w, a) = {} THEN <<-1, -1, -1>>
    ELSE w.loops[CHOOSE i \in LoopsAround(w, a) :
                    /\ \A j \in LoopsAround(w, a) : w.loops[j][1] <= w.loops[i][1]
                    /\ \A j \in LoopsAround(w, a) :
                          w.loops[j][1] = w.loops[i][1] => i <= j]

(***************************************************************************)
(* POP_JUMP_IF: conditional jumps, folded into conditions, if statements   *)
(* and conditional expressions.                                            *)
(***************************************************************************)
\* Address.is_else_jump
is_else_jump(w, a) == a \in w.else_jumps

\* the locals of POP_JUMP_IF that no line assigns twice
PopJumpIf(c, addr, truthiness, wcontext) ==
    [addr |-> addr, truthiness |-> truthiness, j_addr |-> jump(c, addr),
     next_addr |-> AddrGetItem(c, addr, 1), wcontext |-> wcontext,
     in_loop |-> CodeGetItem(c, wcontext[1]) # NoneAddr,
     is_loop_condition |-> wcontext[2] > 0 /\ addr <= wcontext[2]]

\* lines 3246-3252 after the pops: the statement `if cond: pass`
POP_JUMP_IF_next_cond(c, d1, w, addr, pp) ==
    Goto(add_statement([d1 EXCEPT !.popjump_stack = pp.stack],
                       IfStatement(addr, pp.cond,
                                   Suite(<<SimpleStatement(addr, <<"pass">>)>>), PyNone)),
         w, AddrGetItem(c, addr, 1))

\* lines 3246-3252: the jump lands on the next instruction
POP_JUMP_IF_next(c, d, w, addr, truthiness, p) ==
    IF ~ p.ok THEN Raise(d, w, EmptyStackPopped)
    ELSE POP_JUMP_IF_next_cond(c, Popped(d, p), w, addr,
            PushPop(c, w, d.popjump_stack, truthiness, jump(c, addr), p.val, addr))

\* lines 3263-3266: the nearest statement jump after addr, or None
NearestStatementJump(w, addr) ==
    IF \A i \in 1..Len(w.statement_jumps) : ~ (addr < w.statement_jumps[i]) THEN NoneAddr
    ELSE CHOOSE x \in {w.statement_jumps[i] : i \in 1..Len(w.statement_jumps)} :
            /\ addr < x
            /\ \A i \in 1..Len(w.statement_jumps) :
                  addr < w.statement_jumps[i] => x <= w.statement_jumps[i]

\* lines 3268-3274: x, the instruction after the statement jump cj
AfterStatementJump(c, w, cj) ==
    IF cj \in w.end_chained_jumps
    THEN IF opcode(c, cj) = "POP_JUMP_IF_TRUE" THEN AddrGetItem(c, cj, 3)
         ELSE AddrGetItem(c, cj, 4)
    ELSE AddrGetItem(c, cj, 1)

\* lines 3279-3286: the end of the loop a continue jump goes back to
LoopExit(c, jump_addr) ==
    IF opcode(c, jump_addr) = "FOR_ITER" THEN jump(c, jump_addr)
    ELSE IF opcode(c, AddrGetItem(c, jump_addr, -1)) = "SETUP_LOOP"
    THEN AddrGetItem(c, jump(c, AddrGetItem(c, jump_addr, -1)), -1)
    ELSE jump_addr

\* line 3267: the assert fails
ContinueJumpAsserts(c, w, d, k) ==
    /\ is_continue_jump(c, k.addr)
    /\ ~ InList(w.statement_jumps, k.addr)
    /\ \/ NearestStatementJump(w, k.addr) = NoneAddr
       \/ ~ (NearestStatementJump(w, k.addr) < d.end_block)

\* lines 3260-3286 with cj the local c: jump_addr of a continue jump
ContinueJumpTarget(c, w, k, cj) ==
    IF /\ cj # NoneAddr
       /\ is_continue_jump(c, AfterStatementJump(c, w, cj))
       /\ (k.truthiness \/ ~ is_continue_jump(c, cj))
    THEN AfterStatementJump(c, w, cj)
    ELSE LoopExit(c, k.j_addr)

\* lines 3260-3286: jump_addr
JumpAddr(c, w, k) ==
    IF ~ is_continue_jump(c, k.addr) THEN k.j_addr
    ELSE ContinueJumpTarget(c, w, k,
            IF InList(w.statement_jumps, k.addr) THEN NoneAddr
            ELSE NearestStatementJump(w, k.addr))

\* the exception of a failed assert statement
AssertionError == "AssertionError"

\* PyConst(True)
PyTrue(id) == PyConst(id, ConstVal("bool", "True"))

\* a child decompiler cannot be made at None: SuiteDecompiler.__init__ reads
\* start_addr.code
NoCode == "AttributeError: 'NoneType' object has no attribute 'code'"

\* the conditional expression is complete: push it and go on at nxt
Ternary_push(d1, w, id, cond, true_expr, false_expr, nxt) ==
    Goto([d1 EXCEPT !.stack = push(@, PyIfElse(id, cond, true_expr, false_expr))], w, nxt)

\* lines 3324-3329 after `false_expr = d_false.stack.pop()` popped p; r is the
\* run of d_false
Ternary_return_false(d1, k, cond, true_expr, end_false, r, p) ==
    IF ~ p.ok THEN Raise(d1, r.w, EmptyStackPopped)
    ELSE Ternary_push(d1, r.w, MkId("PyIfElse", k.addr), cond, true_expr, p.val,
            IF r.addr # NoneAddr /\ (end_false = NoneAddr \/ r.addr < end_false)
            THEN r.addr ELSE end_false)

\* lines 3321-3329 after d_false.run() returned r
Ternary_return_ran(d1, k, cond, true_expr, end_false, r) ==
    IF r.exc # "" THEN Raise(d1, r.w, r.exc)
    ELSE Ternary_return_false(d1, k, cond, true_expr, end_false, r, pop1(r.d.stack))

\* lines 3312-3318: end_false of `return (a if b else c)`
TernaryReturnEnd(c, d, jump_addr) ==
    IF opcode(c, d.end_block) = "RETURN_VALUE" THEN d.end_block
    ELSE IF seek_back(c, d.end_block, {"RETURN_VALUE"}, jump_addr) # NoneAddr
    THEN seek_back(c, d.end_block, {"RETURN_VALUE"}, jump_addr)
    ELSE IF opcode(c, AddrGetItem(c, d.end_block, 1)) = "RETURN_VALUE"
    THEN AddrGetItem(c, d.end_block, 1)
    ELSE d.end_block

\* lines 3311-3329 after `true_expr = d_true.stack.pop()` popped p
Ternary_return_true(c, d1, w, k, jump_addr, cond, end_false, p) ==
    IF ~ p.ok THEN Raise(d1, w, EmptyStackPopped)
    ELSE IF jump_addr = NoneAddr THEN Raise(d1, w, NoCode)
    ELSE Ternary_return_ran(d1, k, cond, p.val, end_false,
            run(c, [SuiteDecompiler(c, jump_addr, end_false, NewStack)
                       EXCEPT !.expression_in_result = TRUE], w))

\* lines 3309-3329 after d_true.run() returned r
Ternary_return(c, d1, k, jump_addr, cond, r) ==
    IF r.exc # "" THEN Raise(d1, r.w, r.exc)
    ELSE Ternary_return_true(c, d1, r.w, k, jump_addr, cond,
                             TernaryReturnEnd(c, d1, jump_addr), pop1(r.d.stack))

\* lines 3345-3359 after d_true.run() returned r and the second pop_popjump pp
Ternary_if_cond(d1, k, r, pp) ==
    IF ~ pp.ok THEN Raise(d1, r.w, EmptyPopjumpStack)
    ELSE Goto([d1 EXCEPT
                 !.popjump_stack = pp.stack,
                 !.suite.statements =
                    Append(@, IfStatement(k.addr, pp.cond,
                                Suite(<<IF r.d.suite.statements = <<>>
                                        THEN SimpleStatement(k.addr, <<"pass">>)
                                        ELSE r.d.suite.statements[1]>>), PyNone))
                      \o (IF r.d.suite.statements = <<>> THEN <<>>
                          ELSE Tail(r.d.suite.statements))],
              r.w, END_NOW)

\* lines 3345-3359: `if (True if a else True):`, r the run of the suite
Ternary_if(c, d1, k, cond, r) ==
    IF r.exc # "" THEN Raise(d1, r.w, r.exc)
    ELSE Ternary_if_cond(d1, k, r,
            PushPop(c, r.w, d1.popjump_stack, k.truthiness, d1.end_block,
                    PyIfElse(MkId("PyIfElse", k.addr), cond,
                             PyTrue(MkId("true_expr", k.addr)),
                             PyTrue(MkId("false_expr", k.addr))),
                    k.addr))

\* lines 3360-3375 after the second pop_popjump returned pp
Ternary_true_cond(d1, w, pp, next_jump_addr) ==
    IF ~ pp.ok THEN Raise(d1, w, EmptyPopjumpStack)
    ELSE Goto([d1 EXCEPT !.popjump_stack = pp.stack, !.stack = push(@, pp.cond)],
              w, next_jump_addr)

\* lines 3370-3375 after `false_expr = d_false.stack.pop()` popped p
Ternary_false(d1, w, k, cond, true_expr, next_jump_addr, p) ==
    IF ~ p.ok THEN Raise(d1, w, EmptyStackPopped)
    ELSE Ternary_push(d1, w, MkId("PyIfElse", k.addr), cond, true_expr, p.val,
                      next_jump_addr)

\* lines 3370-3375 after d_false.run() returned r
Ternary_false_ran(d1, k, cond, true_expr, next_jump_addr, r) ==
    IF r.exc # "" THEN Raise(d1, r.w, r.exc)
    ELSE Ternary_false(d1, r.w, k, cond, true_expr, next_jump_addr, pop1(r.d.stack))

\* lines 3342-3375 once true_expr is known; x is jump_addr[-1] and xj its target
Ternary_else(c, d1, w, k, jump_addr, cond, true_expr, next_jump_addr, x, xj) ==
    IF oparg(c, x) = 0
    THEN IF AddrGetItem(c, k.addr, 2) = jump_addr
         THEN IF AddrGetItem(c, x, 1) = NoneAddr THEN Raise(d1, w, NoCode)
              ELSE Ternary_if(c, d1, k, cond,
                      run(c, SuiteDecompiler(c, AddrGetItem(c, x, 1), d1.end_addr, NewStack), w))
         ELSE Ternary_true_cond(d1, w,
                 PushPop(c, w, d1.popjump_stack, k.truthiness, d1.end_block,
                         PyIfElse(MkId("PyIfElse", k.addr), cond, true_expr,
                                  PyTrue(MkId("false_expr", k.addr))),
                         k.addr),
                 next_jump_addr)
    ELSE IF jump_addr = NoneAddr THEN Raise(d1, w, NoCode)
    ELSE IF opcode(c, AddrGetItem(c, xj, -1)) \in pop_jump_if_opcodes
    THEN Ternary_false_ran(d1, k, cond, true_expr, AddrGetItem(c, xj, -1),
            run(c, SuiteDecompiler(c, jump_addr, AddrGetItem(c, xj, -1), NewStack), w))
    ELSE Ternary_false_ran(d1, k, cond, true_expr, next_jump_addr,
            run(c, SuiteDecompiler(c, jump_addr, xj, NewStack), w))

\* lines 3339-3341 after `true_expr = d_true.stack.pop()` popped p
Ternary_true(c, d1, w, k, jump_addr, cond, next_jump_addr, x, p) ==
    IF ~ p.ok THEN Raise(d1, w, EmptyStackPopped)
    ELSE Ternary_else(c, d1, w, k, jump_addr, cond, p.val, next_jump_addr, x, jump(c, x))

\* lines 3339-3341 after d_true.run() returned r
Ternary_true_ran(c, d1, k, jump_addr, cond, next_jump_addr, x, r) ==
    IF r.exc # "" THEN Raise(d1, r.w, r.exc)
    ELSE Ternary_true(c, d1, r.w, k, jump_addr, cond, next_jump_addr, x, pop1(r.d.stack))

\* lines 3330-3341: true_expr of a conditional expression
Ternary_expr(c, d1, w, k, jump_addr, cond, x) ==
    IF AddrGetItem(c, k.addr, 2) = jump_addr
    THEN Ternary_else(c, d1, w, k, jump_addr, cond, PyTrue(MkId("true_expr", k.addr)),
                      jump(c, x), x, jump(c, x))
    ELSE IF k.next_addr = NoneAddr THEN Raise(d1, w, NoCode)
    ELSE IF opcode(c, AddrGetItem(c, jump_addr, -2)) \in pop_jump_if_opcodes
    THEN Ternary_true_ran(c, d1, k, jump_addr, cond, AddrGetItem(c, jump_addr, -2), x,
            run(c, SuiteDecompiler(c, k.next_addr, AddrGetItem(c, jump_addr, -2), NewStack), w))
    ELSE Ternary_true_ran(c, d1, k, jump_addr, cond, jump(c, x), x,
            run(c, SuiteDecompiler(c, k.next_addr, x, NewStack), w))

\* lines 3305-3375 after push_popjump and pop_popjump returned pp
Ternary_cond(c, d1, w, k, jump_addr, x, pp) ==
    IF ~ pp.ok THEN Raise(d1, w, EmptyPopjumpStack)
    ELSE IF opcode(c, x) # "RETURN_VALUE"
    THEN Ternary_expr(c, [d1 EXCEPT !.popjump_stack = pp.stack], w, k, jump_addr, pp.cond, x)
    ELSE IF k.next_addr = NoneAddr THEN Raise(d1, w, NoCode)
    ELSE Ternary_return(c, [d1 EXCEPT !.popjump_stack = pp.stack], k, jump_addr, pp.cond,
            run(c, SuiteDecompiler(c, k.next_addr, x, NewStack), w))

\* lines 3304-3375: addr guards a conditional expression
Ternary(c, d, w, k, jump_addr, cond) ==
    Ternary_cond(c, d, w, k, jump_addr, AddrGetItem(c, jump_addr, -1),
        PushPop(c, w, d.popjump_stack, k.truthiness, jump_addr, cond, k.addr))

\* lines 3383-3393: pass_addr, replace_addr and jump_addr after the scan
PassScan(pass_addr, replace_addr, jump_addr) ==
    [pass_addr |-> pass_addr, replace_addr |-> replace_addr, jump_addr |-> jump_addr]

RECURSIVE ScanForPass(_, _, _, _, _)
ScanForPass(c, d, k, jump_addr, x) ==
    IF x = NoneAddr \/ ~ AddrLt(x, d.end_block) \/ is_statement(c, x)
    THEN PassScan(NoneAddr, NoneAddr, jump_addr)
    ELSE IF opcode(c, x) = "JUMP_FORWARD" /\ InLinemap(c, x)
    THEN PassScan(x, jump(c, x), IF jump(c, x) = k.j_addr THEN x ELSE jump_addr)
    ELSE ScanForPass(c, d, k, jump_addr, AddrGetItem(c, x, 1))

\* lines 3426-3442: the instruction next_addr of the condition shows that the
\* statement does not start at addr
BelongsToLargerCondition(c, k, ps, next_addr, next_jump_addr) ==
    \/ /\ opcode(c, next_addr) \in pop_jump_if_opcodes
       /\ \/ AddrGt(next_jump_addr, ps.jump_addr)
          \/ opcode(c, AddrGetItem(c, next_jump_addr, -1)) = "SETUP_LOOP"
          \/ /\ AddrGetItem(c, next_addr, 1) = ps.jump_addr
             /\ oparg(c, k.addr) # oparg(c, next_addr)
          \/ opcode(c, next_jump_addr) = "FOR_ITER"
    \/ /\ opcode(c, next_addr) \in {"JUMP_IF_FALSE_OR_POP", "JUMP_IF_TRUE_OR_POP"}
       /\ \/ AddrGt(jump(c, next_addr), ps.jump_addr)
          \/ /\ jump(c, next_addr) = ps.jump_addr
             /\ opcode(c, AddrGetItem(c, ps.jump_addr, -1)) \in else_jump_opcodes

RECURSIVE LargerCondition(_, _, _, _, _)
\* lines 3425-3443: some instruction from next_addr up to x returns None
LargerCondition(c, k, ps, next_addr, x) ==
    IF next_addr = NoneAddr \/ ~ AddrLt(next_addr, x) THEN FALSE
    ELSE IF BelongsToLargerCondition(c, k, ps, next_addr,
                IF opcode(c, next_addr) \in pop_jump_if_opcodes
                     /\ ps.replace_addr # NoneAddr /\ jump(c, next_addr) = ps.replace_addr
                THEN ps.pass_addr ELSE jump(c, next_addr))
    THEN TRUE
    ELSE LargerCondition(c, k, ps, AddrGetItem(c, next_addr, 1), x)

\* lines 3397-3443: the tests that leave the condition pending (return None)
StaysPending(c, d, w, k, ps) ==
    \/ ~ InList(w.statement_jumps, k.addr)
    \/ seek_forward(c, ps.jump_addr, {"MAP_ADD"}, NoneAddr) # NoneAddr
    \/ c.name = "<lambda>"
    \/ seek_back(c, ps.jump_addr, {"JUMP_IF_TRUE_OR_POP"},
                 AddrGetItem(c, ps.jump_addr, -2)) # NoneAddr
    \/ /\ c.name = "<genexpr>"
       /\ opcode(c, ps.jump_addr) # "END_FINALLY"
       /\ opcode(c, AddrGetItem(c, ps.jump_addr, 1)) = "JUMP_ABSOLUTE"
    \/ /\ ~ (d.end_addr # NoneAddr /\ AddrGt(ps.jump_addr, d.end_addr))
       /\ ~ k.is_loop_condition
       /\ LargerCondition(c, k, ps, k.next_addr,
             IF seek_stmt(c, k.addr, ps.jump_addr) = NoneAddr THEN ps.jump_addr
             ELSE seek_stmt(c, k.addr, ps.jump_addr))

\* lines 3446-3450 after d_true.run() returned r
POP_JUMP_IF_plain_ran(d1, cond, k, end_true, r) ==
    IF r.exc # "" THEN Raise(d1, r.w, r.exc)
    ELSE Goto(add_statement(d1, IfStatement(k.addr, cond, r.d.suite, PyNone)), r.w, end_true)

\* lines 3445-3450 after pop_popjump returned pp
POP_JUMP_IF_plain_cond(c, d1, w, k, end_true, pp) ==
    IF ~ pp.ok THEN Raise(d1, w, EmptyPopjumpStack)
    ELSE IF AddrGetItem(c, k.addr, 1) = NoneAddr
    THEN Raise(d1, w, "AttributeError: 'NoneType' object has no attribute 'code'")
    ELSE POP_JUMP_IF_plain_ran([d1 EXCEPT !.popjump_stack = pp.stack], pp.cond, k, end_true,
            run(c, SuiteDecompiler(c, AddrGetItem(c, k.addr, 1), end_true, NewStack), w))

\* lines 3395-3450 after push_popjump left the decompiler d1
POP_JUMP_IF_plain_pushed(c, d1, w, k, ps) ==
    IF StaysPending(c, d1, w, k, ps) THEN Ok(d1, w)
    ELSE POP_JUMP_IF_plain_cond(c, d1, w, k,
            IF d1.end_addr # NoneAddr /\ AddrGt(ps.jump_addr, d1.end_addr)
            THEN d1.end_addr ELSE ps.jump_addr,
            pop_popjump(d1.popjump_stack, MkId("pop_popjump", k.addr)))

\* lines 3377-3450: an if statement without else, or a condition still pending
POP_JUMP_IF_plain(c, d, w, k, cond, ps) ==
    POP_JUMP_IF_plain_pushed(c,
        PushPopjump(c, w, d, k.truthiness, ps.jump_addr, cond, k.addr), w, k, ps)


\* the locals of POP_JUMP_IF that later lines reassign
Locals(jump_addr, cond, end_true, next_addr) ==
    [jump_addr |-> jump_addr, cond |-> cond, end_true |-> end_true,
     next_addr |-> next_addr]

\* self.suite.add_statement(IfStatement(cond, true_suite, false_suite))
AddIf(d, k, cond, true_suite, false_suite) ==
    add_statement(d, IfStatement(k.addr, cond, true_suite, false_suite))

\* self.suite.statements = self.suite.statements + stmts
Extend(d, stmts) == [d EXCEPT !.suite.statements = @ \o stmts]

\* isinstance(stmt, SimpleStatement) and stmt.val.startswith('return')
IsReturn(stmt) == stmt.k = "SimpleStatement" /\ StartsWithReturn(stmt.val)

\* isinstance(stmt, SimpleStatement) and stmt.val == word
IsSimple(stmt, word) == stmt.k = "SimpleStatement" /\ stmt.val = <<word>>

\* stmt.val = 'pass': the attribute val is what a SimpleStatement displays
SetPass(stmt) ==
    IF stmt.k = "SimpleStatement" THEN [stmt EXCEPT !.val = <<"pass">>] ELSE stmt

\* the position (from 1) of the first return statement of stmts, 0 without one
FirstReturn(stmts) ==
    IF \A i \in 1..Len(stmts) : ~ IsReturn(stmts[i]) THEN 0
    ELSE CHOOSE i \in 1..Len(stmts) :
            IsReturn(stmts[i]) /\ \A j \in 1..(i - 1) : ~ IsReturn(stmts[j])

\* stmts[:n] and stmts[n:]
Upto(stmts, n) == SubSeq(stmts, 1, n)

From(stmts, n) == SubSeq(stmts, n + 1, Len(stmts))

\* a decompiler that is not run: its suite is the statement pass
PassSuite(c, w, at, end) ==
    Pass(add_statement(SuiteDecompiler(c, at, end, NewStack),
                       SimpleStatement(at, <<"pass">>)), w, NoneAddr, "", TRUE)

IndexError == "IndexError: list index out of range"

RECURSIVE FirstReturnFrom(_, _)
\* lines 3785-3787: the first RETURN_VALUE from a on; None ends the search
\* with an AttributeError
FirstReturnFrom(c, a) ==
    IF a = NoneAddr \/ opcode(c, a) = "RETURN_VALUE" THEN a
    ELSE FirstReturnFrom(c, AddrGetItem(c, a, 1))

\* lines 3766-3790: end_false, by the opcode of end_true
IfElse_end_false(c, d, l) ==
    IF opcode(c, l.end_true) = "JUMP_FORWARD" THEN jump(c, l.end_true)
    ELSE IF opcode(c, l.end_true) = "JUMP_ABSOLUTE"
    THEN IF is_continue_jump(c, l.end_true) THEN d.end_addr
         ELSE IF AddrGt(jump(c, l.end_true), d.end_block) THEN d.end_addr
         ELSE IF opcode(c, jump(c, l.end_true)) = "RETURN_VALUE"
         THEN AddrGetItem(c, jump(c, l.end_true), 1)
         ELSE jump(c, l.end_true)
    ELSE IF opcode(c, l.end_true) = "RETURN_VALUE"
    THEN AddrGetItem(c, FirstReturnFrom(c, l.jump_addr), 1)
    ELSE l.jump_addr

\* lines 3766-3772: d_true; a continue jump at the end of the true suite
\* belongs to the suite
IfElse_d_true(c, d, l) ==
    IF opcode(c, l.end_true) = "JUMP_ABSOLUTE" /\ is_continue_jump(c, l.end_true)
    THEN [SuiteDecompiler(c, l.next_addr, l.end_true, NewStack)
             EXCEPT !.end_addr = AddrGetItem(c, l.end_true, 1)]
    ELSE SuiteDecompiler(c, l.next_addr, l.end_true, NewStack)

\* lines 3803-3816 after both suites ran: a conditional expression when both
\* left a value, an if statement otherwise
IfElse_stmt(d1, k, l, end_false, T, rF) ==
    IF rF.exc # "" THEN Raise(d1, rF.w, rF.exc)
    ELSE IF T.stack._stack # <<>> /\ rF.d.stack._stack # <<>>
    THEN IF Len(T.stack._stack) # 1 \/ Len(rF.d.stack._stack) # 1
              \/ T.suite.statements # <<>> \/ rF.d.suite.statements # <<>>
         THEN Raise(d1, rF.w, AssertionError)
         ELSE Goto([d1 EXCEPT !.stack =
                       push(@, PyIfElse(MkId("PyIfElse", k.addr), l.cond,
                                        T.stack._stack[1], rF.d.stack._stack[1]))],
                   rF.w, IF end_false = NoneAddr THEN END_NOW ELSE end_false)
    ELSE Goto(AddIf(d1, k, l.cond, T.suite, rF.d.suite), rF.w,
              IF end_false = NoneAddr THEN END_NOW ELSE end_false)

\* lines 3796-3802 after d_true ran (or was given pass): d_false
IfElse_false(c, d1, k, l, end_false, rT) ==
    IF rT.exc # "" THEN Raise(d1, rT.w, rT.exc)
    ELSE IF opcode(c, l.end_true) = "JUMP_FORWARD" /\ oparg(c, l.end_true) = 0
    THEN IF l.jump_addr = NoneAddr THEN Raise(d1, rT.w, NoCode)
         ELSE IfElse_stmt(d1, k, l, end_false, rT.d,
                          PassSuite(c, rT.w, l.jump_addr, end_false))
    ELSE IfElse_stmt(d1, k, l, end_false, rT.d,
            run(c, SuiteDecompiler(c, l.jump_addr, end_false, NewStack), rT.w))

\* lines 3764-3818: if with else, or a conditional expression
IfElse_end(c, d, w, k, l, end_false) ==
    IF opcode(c, l.end_true) = "RETURN_VALUE"
          /\ FirstReturnFrom(c, l.jump_addr) = NoneAddr
    THEN Raise(d, w, AttributeErrorNone)
    ELSE IF l.next_addr = NoneAddr THEN Raise(d, w, NoCode)
    ELSE IF l.jump_addr = AddrGetItem(c, k.addr, 2)
              /\ opcode(c, l.next_addr) = "JUMP_FORWARD"
    THEN IfElse_false(c, d, k, l, end_false,
            Pass(add_statement(IfElse_d_true(c, d, l),
                               SimpleStatement(k.addr, <<"pass">>)),
                 w, NoneAddr, "", TRUE))
    ELSE IfElse_false(c, d, k, l, end_false, run(c, IfElse_d_true(c, d, l), w))

IfElse(c, d, w, k, l) == IfElse_end(c, d, w, k, l, IfElse_end_false(c, d, l))

\* lines 3670-3674 after d_true.run() returned r
RaiseOrPop_ran(d1, k, l, r) ==
    IF r.exc # "" THEN Raise(d1, r.w, r.exc)
    ELSE Goto(AddIf(d1, k, l.cond, r.d.suite, Suite(<<>>)), r.w, l.jump_addr)

\* lines 3670-3674: the true suite ends in RAISE_VARARGS or POP_TOP
RaiseOrPop(c, d, w, k, l) ==
    RaiseOrPop_ran(d, k, l,
        run(c, SuiteDecompiler(c, l.next_addr, AddrGetItem(c, l.end_true, 1), NewStack), w))

\* lines 3682-3694: end_true + 1, the number of statements that stay in the
\* true suite, 0 when end_true stays None; r1 is the first return statement
BeyondBlock_end_true(c, d1, stmts, r1) ==
    IF r1 = 0 THEN 0
    ELSE IF r1 - 1 < Len(stmts) - 2 \/ is_continue_jump(c, d1.end_block) THEN r1
    ELSE IF r1 - 1 = Len(stmts) - 2 /\ ~ IsSimple(stmts[r1 + 1], "yield") THEN r1 + 1
    ELSE 0

\* lines 3695-3707 with n = end_true + 1
BeyondBlock_stmt(c, d1, w, k, l, stmts, n) ==
    IF n = 0
    THEN Goto(AddIf(d1, k, l.cond, Suite(stmts),
                    IF opcode(c, d1.end_block) = "JUMP_FORWARD" /\ oparg(c, d1.end_block) = 0
                    THEN Suite(<<SimpleStatement(k.addr, <<"pass">>)>>)
                    ELSE PyNone), w, END_NOW)
    ELSE Goto(Extend(AddIf(d1, k, l.cond, Suite(Upto(stmts, n)), PyNone), From(stmts, n)),
              w, END_NOW)

\* lines 3678-3707 after d_true.run() returned r
BeyondBlock_ran(c, d1, k, l, r) ==
    IF r.exc # "" THEN Raise(d1, r.w, r.exc)
    ELSE BeyondBlock_stmt(c, d1, r.w, k, l, r.d.suite.statements,
            BeyondBlock_end_true(c, d1, r.d.suite.statements,
                                 FirstReturn(r.d.suite.statements)))

\* lines 3678-3707: the jump leaves the block this decompiler works on
BeyondBlock(c, d, w, k, l) ==
    BeyondBlock_ran(c, d, k, l,
        run(c, SuiteDecompiler(c, l.next_addr, d.end_addr, NewStack), w))

\* lines 3631-3648: end_false, whether the statements after the return of the
\* true suite are an else suite
ReturnEnd_end_false(c, d1, w, cn, cp) ==
    \/ opcode(c, d1.end_block) # "RETURN_VALUE"
    \/ /\ cn # NoneAddr
       /\ \/ opcode(c, cn) = "JUMP_FORWARD"
          \/ opcode(c, cn) = "JUMP_ABSOLUTE" /\ ~ InLinemap(c, cn)
    \/ /\ d1.end_addr = NoneAddr
       /\ opcode(c, cp) = "LOAD_CONST"
       /\ opcode(c, AddrGetItem(c, cp, -1))
             \notin {"JUMP_IF_TRUE_OR_POP", "JUMP_IF_FALSE_OR_POP"}
       /\ IsConstNone(CodeConst(c, oparg(c, cp)))
       /\ IF c.flags.generator
          THEN seek_forward(c, 0, {"RETURN_VALUE"}, cp) # NoneAddr
          ELSE ~ InLinemap(c, cp)
       /\ \A x \in w.ternaryop_jumps : jump(c, x) # cp

\* lines 3616-3655: F is d_false.suite.statements, r1 its first return
\* statement, i the position after the test for a yield behind it
ReturnEnd_stmt(c, d1, w, k, l, T, F, r1, i) ==
    IF r1 = 0 THEN Goto(Extend(AddIf(d1, k, l.cond, T, PyNone), F), w, END_NOW)
    ELSE IF i < Len(F)
    THEN Goto(Extend(AddIf(d1, k, l.cond, T, Suite(Upto(F, i))), From(F, i)), w, END_NOW)
    ELSE IF ReturnEnd_end_false(c, d1, w, AddrGetItem(c, d1.end_block, 1),
                                AddrGetItem(c, d1.end_block, -1))
    THEN Goto(AddIf(d1, k, l.cond, T, Suite(F)), w, END_NOW)
    ELSE Goto(Extend(AddIf(d1, k, l.cond, T, PyNone), F), w, END_NOW)

\* lines 3620-3623: i after `if stmt.val == "yield": i = i + 1`
AfterYield(F, r1) ==
    IF r1 # 0 /\ r1 < Len(F) /\ IsSimple(F[r1 + 1], "yield") THEN r1 + 1 ELSE r1

\* lines 3614-3655 after d_false.run() returned r
ReturnEnd_false(c, d1, k, l, T, r) ==
    IF r.exc # "" THEN Raise(d1, r.w, r.exc)
    ELSE ReturnEnd_stmt(c, d1, r.w, k, l, T, r.d.suite.statements,
                        FirstReturn(r.d.suite.statements),
                        AfterYield(r.d.suite.statements, FirstReturn(r.d.suite.statements)))

\* lines 3607-3615 after d_true.run() returned r
ReturnEnd_true(c, d1, k, l, r) ==
    IF r.exc # "" THEN Raise(d1, r.w, r.exc)
    ELSE IF r.d.suite.statements = <<>> THEN Raise(d1, r.w, IndexError)
    ELSE IF ~ (\/ IsReturn(r.d.suite.statements[Len(r.d.suite.statements)])
               \/ IsSimple(r.d.suite.statements[Len(r.d.suite.statements)], "yield"))
    THEN Goto(AddIf(d1, k, l.cond, r.d.suite, PyNone), r.w, k.j_addr)
    ELSE ReturnEnd_false(c, d1, k, l, r.d.suite,
            run(c, SuiteDecompiler(c, k.j_addr, d1.end_addr, NewStack), r.w))

\* lines 3606-3655: the true suite ends in RETURN_VALUE
ReturnEnd(c, d, w, k, l) ==
    ReturnEnd_true(c, d, k, l,
        run(c, SuiteDecompiler(c, l.next_addr, AddrGetItem(c, l.end_true, 1), NewStack), w))

\* the position (from lo) of the first statement continue of stmts, 0 without
FirstContinueFrom(stmts, lo) ==
    IF \A i \in lo..Len(stmts) : ~ IsSimple(stmts[i], "continue") THEN 0
    ELSE CHOOSE i \in lo..Len(stmts) :
            /\ IsSimple(stmts[i], "continue")
            /\ \A j \in lo..(i - 1) : ~ IsSimple(stmts[j], "continue")

\* the position of the last statement continue among the first n of stmts
LastContinueUpto(stmts, n) ==
    IF \A i \in 1..n : ~ IsSimple(stmts[i], "continue") THEN 0
    ELSE CHOOSE i \in 1..n :
            /\ IsSimple(stmts[i], "continue")
            /\ \A j \in (i + 1)..n : ~ IsSimple(stmts[j], "continue")

\* if cond: T else: F[:n], followed by F[n:]
SplitElse(d1, w, k, l, T, F, n) ==
    Goto(Extend(AddIf(d1, k, l.cond, T, Suite(Upto(F, n))), From(F, n)), w, END_NOW)

\* if cond: T, followed by F
NoElse(d1, w, k, l, T, F) ==
    Goto(Extend(AddIf(d1, k, l.cond, T, PyNone), F), w, END_NOW)

\* lines 3716-3735 after d_false.run() returned r; d_true was not run
ContinueEnd_only(c, d1, k, l, r) ==
    IF r.exc # "" THEN Raise(d1, r.w, r.exc)
    ELSE IF /\ Len(r.d.suite.statements) > 1
            /\ FirstReturn(r.d.suite.statements) # 0
            /\ \/ FirstReturn(r.d.suite.statements) < Len(r.d.suite.statements)
               \/ opcode(c, d1.end_block) = "JUMP_ABSOLUTE"
    THEN SplitElse(d1, r.w, k, l, Suite(<<>>), r.d.suite.statements,
                   FirstReturn(r.d.suite.statements))
    ELSE IF r.d.suite.statements = <<>> THEN Raise(d1, r.w, IndexError)
    ELSE IF /\ IsReturn(r.d.suite.statements[Len(r.d.suite.statements)])
            /\ opcode(c, d1.end_block) = "JUMP_ABSOLUTE"
    THEN Goto(AddIf(d1, k, l.cond, Suite(<<SimpleStatement(k.addr, <<"pass">>)>>),
                    r.d.suite), r.w, END_NOW)
    ELSE NoElse(d1, r.w, k, l, Suite(<<SimpleStatement(k.addr, <<"continue">>)>>),
                r.d.suite.statements)

\* lines 3737-3739 after d_true.run() returned r
ContinueEnd_true(d1, k, l, r) ==
    IF r.exc # "" THEN Raise(d1, r.w, r.exc)
    ELSE Goto(AddIf(d1, k, l.cond, r.d.suite, PyNone), r.w, k.j_addr)

\* lines 3744-3762: F is d_false.suite.statements
ContinueEnd_stmt(c, d1, w, k, l, T, F) ==
    IF /\ FirstReturn(F) # 0
       /\ \/ Len(F) = 1
          \/ FirstReturn(F) < Len(F)
          \/ opcode(c, d1.end_block) = "JUMP_ABSOLUTE"
    THEN SplitElse(d1, w, k, l, T, F, FirstReturn(F))
    ELSE IF FirstContinueFrom(F, 1) # 0
    THEN SplitElse(d1, w, k, l, T, F, FirstContinueFrom(F, 1) - 1)
    ELSE Goto(AddIf(d1, k, l.cond, T, Suite(F)), w, END_NOW)

\* lines 3742-3762 after d_false.run() returned r
ContinueEnd_false(c, d1, k, l, T, r) ==
    IF r.exc # "" THEN Raise(d1, r.w, r.exc)
    ELSE ContinueEnd_stmt(c, d1, r.w, k, l, T, r.d.suite.statements)

\* lines 3741-3743 after d_true.run() returned r
ContinueEnd_both(c, d1, k, l, r) ==
    IF r.exc # "" THEN Raise(d1, r.w, r.exc)
    ELSE ContinueEnd_false(c, d1, k, l, r.d.suite,
            run(c, SuiteDecompiler(c, k.j_addr, d1.end_addr, NewStack), r.w))

\* lines 3709-3762: in a loop, the true suite ends in a continue jump
ContinueEnd(c, d, w, k, l) ==
    IF ~ InLinemap(c, l.end_true)
    THEN ContinueEnd_both(c, d, k, l,
            run(c, SuiteDecompiler(c, l.next_addr, k.j_addr, NewStack), w))
    ELSE IF l.next_addr + 1 = k.j_addr /\ d.end_addr = NoneAddr
    THEN Raise(d, w, "AttributeError: 'NoneType' object has no attribute 'index'")
    ELSE IF l.next_addr + 1 = k.j_addr /\ d.end_addr = k.wcontext[3]
    THEN ContinueEnd_only(c, d, k, l,
            run(c, SuiteDecompiler(c, k.j_addr, d.end_addr, NewStack), w))
    ELSE ContinueEnd_true(d, k, l,
            run(c, SuiteDecompiler(c, l.next_addr, k.j_addr, NewStack), w))

\* lines 3580-3604: the run of d_true went to the end of the block
LoopContinue_alone(c, d1, w, k, l, T) ==
    IF Len(T) < 2
    THEN IF l.next_addr = d1.end_block /\ is_continue_jump(c, l.next_addr)
         THEN IF T = <<>> THEN Raise(d1, w, IndexError)
              ELSE Goto(AddIf(d1, k, l.cond, Suite(<<SetPass(T[1])>>), PyNone), w, END_NOW)
         ELSE Goto(AddIf(d1, k, l.cond, Suite(T), PyNone), w, END_NOW)
    ELSE IF FirstContinueFrom(T, 2) = 0
    THEN Goto(AddIf(d1, k, l.cond, Suite(T), PyNone), w, END_NOW)
    ELSE Goto(Extend(AddIf(d1, k, l.cond, Suite(Upto(T, FirstContinueFrom(T, 2) - 1)), PyNone),
                     From(T, FirstContinueFrom(T, 2) - 1)), w, END_NOW)

\* lines 3535-3547: d_false has fewer than two statements
LoopContinue_short(c, d1, w, k, l, T, end_true, F) ==
    IF F = <<>> THEN Goto(AddIf(d1, k, l.cond, T, PyNone), w, END_NOW)
    ELSE IF InLinemap(c, d1.end_block) /\ d1.end_addr = NoneAddr
    THEN Raise(d1, w, "AttributeError: 'NoneType' object has no attribute 'index'")
    ELSE IF InLinemap(c, d1.end_block) /\ d1.end_addr = k.wcontext[3]
    THEN Goto(AddIf(d1, k, l.cond, T, Suite(<<SetPass(F[1])>>)), w, END_NOW)
    ELSE IF opcode(c, end_true) = "JUMP_ABSOLUTE" /\ ~ InLinemap(c, end_true)
    THEN Goto(AddIf(d1, k, l.cond, T, Suite(F)), w, END_NOW)
    ELSE Goto(add_statement(AddIf(d1, k, l.cond, T, PyNone), F[1]), w, END_NOW)

\* lines 3548-3578: r1 is end_false of the scan (0 for None) and cl - 1 its c
LoopContinue_long(c, d1, w, k, l, T, F, r1, cl) ==
    IF r1 = 0 /\ cl <= 1
    THEN IF InLinemap(c, d1.end_block) /\ opcode(c, d1.end_block) = "JUMP_ABSOLUTE"
         THEN NoElse(d1, w, k, l, T, F)
         ELSE Goto(AddIf(d1, k, l.cond, T, Suite(F)), w, END_NOW)
    ELSE IF r1 = 0 THEN SplitElse(d1, w, k, l, T, F, cl - 1)
    ELSE IF r1 = Len(F) /\ opcode(c, d1.end_block) = "RETURN_VALUE"
    THEN IF cl <= 1 THEN NoElse(d1, w, k, l, T, F)
         ELSE SplitElse(d1, w, k, l, T, F, cl - 1)
    ELSE SplitElse(d1, w, k, l, T, F, r1)

\* lines 3531-3578 after d_false.run() returned r
LoopContinue_false(c, d1, k, l, T, end_true, r) ==
    IF r.exc # "" THEN Raise(d1, r.w, r.exc)
    ELSE IF Len(r.d.suite.statements) < 2
    THEN LoopContinue_short(c, d1, r.w, k, l, T, end_true, r.d.suite.statements)
    ELSE LoopContinue_long(c, d1, r.w, k, l, T, r.d.suite.statements,
            FirstReturn(r.d.suite.statements),
            LastContinueUpto(r.d.suite.statements,
                IF FirstReturn(r.d.suite.statements) = 0 THEN Len(r.d.suite.statements)
                ELSE FirstReturn(r.d.suite.statements) - 1))

\* lines 3525-3529 after d_false.run() returned r
LoopContinue_else(d1, k, l, T, end_false, r) ==
    IF r.exc # "" THEN Raise(d1, r.w, r.exc)
    ELSE Goto(AddIf(d1, k, l.cond, T, r.d.suite), r.w, end_false)

\* lines 3523-3604 after `end_true = d_true.run()` returned r
LoopContinue_true(c, d1, k, l, r) ==
    IF r.exc # "" THEN Raise(d1, r.w, r.exc)
    ELSE IF ~ (r.addr # NoneAddr /\ AddrLt(r.addr, d1.end_block))
    THEN LoopContinue_alone(c, d1, r.w, k, l, r.d.suite.statements)
    ELSE IF opcode(c, r.addr) = "JUMP_FORWARD"
    THEN LoopContinue_else(d1, k, l, r.d.suite, jump(c, r.addr),
            run(c, SuiteDecompiler(c, AddrGetItem(c, r.addr, 1), jump(c, r.addr), NewStack), r.w))
    ELSE IF opcode(c, r.addr) \in {"JUMP_ABSOLUTE", "RETURN_VALUE"}
    THEN LoopContinue_false(c, d1, k, l, r.d.suite, r.addr,
            run(c, SuiteDecompiler(c, AddrGetItem(c, r.addr, 1), d1.end_addr, NewStack), r.w))
    ELSE Raise(d1, r.w, "Exception: scan_for_else: end_true<end_block.")

\* lines 3520-3604: a continue jump in a loop; d_true runs up to the jump that
\* ends the true suite
LoopContinue(c, d, w, k, l) ==
    LoopContinue_true(c, d, k, l,
        run(c, [SuiteDecompiler(c, l.next_addr, d.end_addr, NewStack)
                   EXCEPT !.scan_for_else = TRUE], w))

RECURSIVE IsCompareContinue(_, _, _)
\* lines 3469-3482: the continue jump that follows a condition `x is y` before
\* any statement, or None
IsCompareContinue(c, d, a) ==
    IF a = NoneAddr \/ a > d.end_block \/ is_statement(c, a) THEN NoneAddr
    ELSE IF opcode(c, a) = "JUMP_ABSOLUTE"
    THEN IF is_continue_jump(c, a) THEN a ELSE NoneAddr
    ELSE IsCompareContinue(c, d, AddrGetItem(c, a, 1))

\* lines 3484-3490: the tests for `if ... or ...: pass else: ...` in a loop
IfPassElseApplies(c, d, w, k, l, faraddr) ==
    /\ k.in_loop /\ ~ k.is_loop_condition /\ ~ k.truthiness
    /\ is_else_jump(w, k.addr)
    /\ k.next_addr # NoneAddr /\ AddrLt(k.next_addr, d.end_block)
    /\ InLinemap(c, k.next_addr)
    /\ \/ opcode(c, k.next_addr) = "JUMP_FORWARD"
       \/ opcode(c, k.next_addr) = "JUMP_ABSOLUTE" /\ is_continue_jump(c, k.next_addr)
    /\ faraddr # NoneAddr /\ faraddr # l.jump_addr /\ AddrGt(faraddr, k.next_addr)
    /\ \/ ~ is_continue_jump(c, k.addr)
       \/ /\ opcode(c, AddrGetItem(c, k.addr, 2)) = "JUMP_ABSOLUTE"
          /\ is_continue_jump(c, AddrGetItem(c, k.addr, 2))

\* popjump_stack_ifpassgetcond, lines 2297-2302: the entries that jump to
\* farthestaddr jump to nextaddr instead
Retargeted(stack, nextaddr, farthestaddr) ==
    [i \in 1..Len(stack) |->
        IF stack[i].addr = farthestaddr THEN [stack[i] EXCEPT !.addr = nextaddr]
        ELSE stack[i]]

\* SuiteDecompiler.popjump_stack_ifpassgetcond
popjump_stack_ifpassgetcond(c, w, stack, jtruthiness, jaddr, jcond, original_jaddr, nextaddr, farthestaddr) ==
    PushPop(c, w, Retargeted(stack, nextaddr, farthestaddr), jtruthiness, jaddr, jcond,
            original_jaddr)

\* lines 3503-3508 after popjump_stack_ifpassgetcond returned pp
IfPassElse_cond(d1, w, k, F, faraddr, pp) ==
    IF ~ pp.ok THEN Raise(d1, w, EmptyPopjumpStack)
    ELSE Goto(AddIf([d1 EXCEPT !.popjump_stack = pp.stack], k, pp.cond,
                    Suite(<<SimpleStatement(k.addr, <<"pass">>)>>), F),
              w, IF faraddr = d1.end_block THEN END_NOW ELSE faraddr)

\* lines 3495-3508 after d_false.run() returned r (or d_false is pass)
IfPassElse_false(c, d1, k, l, faraddr, r) ==
    IF r.exc # "" THEN Raise(d1, r.w, r.exc)
    ELSE IfPassElse_cond(d1, r.w, k, r.d.suite, faraddr,
            popjump_stack_ifpassgetcond(c, r.w, d1.popjump_stack, k.truthiness,
                                        l.jump_addr, l.cond, k.addr, k.next_addr, faraddr))

\* lines 3491-3508: if ... or ...: pass else: ...
IfPassElse(c, d, w, k, l, faraddr) ==
    IF AddrGetItem(c, k.addr, 2) = faraddr
    THEN IfPassElse_false(c, d, k, l, faraddr, PassSuite(c, w, faraddr, faraddr))
    ELSE IfPassElse_false(c, d, k, l, faraddr,
            run(c, SuiteDecompiler(c, AddrGetItem(c, k.addr, 2), faraddr, NewStack), w))

\* lines 3520-3818: the statement by the end of its true suite
POP_JUMP_IF_tail(c, d, w, k, l) ==
    IF k.in_loop /\ is_continue_jump(c, k.addr) THEN LoopContinue(c, d, w, k, l)
    ELSE IF /\ opcode(c, l.end_true) = "RETURN_VALUE"
            /\ ~ is_continue_jump(c, k.addr)
            /\ k.j_addr <= d.end_block
    THEN ReturnEnd(c, d, w, k, l)
    ELSE IF opcode(c, l.end_true) \in {"RAISE_VARARGS", "POP_TOP"}
    THEN RaiseOrPop(c, d, w, k, l)
    ELSE IF AddrGt(k.j_addr, d.end_block) THEN BeyondBlock(c, d, w, k, l)
    ELSE IF k.in_loop /\ ~ k.is_loop_condition /\ is_continue_jump(c, l.end_true)
    THEN ContinueEnd(c, d, w, k, l)
    ELSE IfElse(c, d, w, k, l)

\* lines 3513-3518: next_addr after the clean-up of a chained comparison
AfterChained(c, w, k) ==
    IF /\ k.addr \in w.end_chained_jumps
       /\ opcode(c, k.next_addr) \in {"JUMP_ABSOLUTE", "JUMP_FORWARD"}
       /\ opcode(c, AddrGetItem(c, k.next_addr, 1)) = "POP_TOP"
    THEN IF k.truthiness THEN AddrGetItem(c, k.next_addr, 2)
         ELSE AddrGetItem(c, k.next_addr, 3)
    ELSE k.next_addr

\* lines 3510-3518 after push_popjump and pop_popjump returned pp
POP_JUMP_IF_cond(c, d1, w, k, l, pp) ==
    IF ~ pp.ok THEN Raise(d1, w, EmptyPopjumpStack)
    ELSE POP_JUMP_IF_tail(c, [d1 EXCEPT !.popjump_stack = pp.stack], w, k,
            Locals(l.jump_addr, pp.cond, l.end_true, AfterChained(c, w, k)))

\* lines 3467-3518: addr is a statement jump
POP_JUMP_IF_stmt(c, d, w, k, l) ==
    IF /\ k.truthiness /\ is_continue_jump(c, k.addr) /\ IsCompareIs(l.cond)
       /\ IsCompareContinue(c, d, k.next_addr) # NoneAddr
    THEN Ok(PushPopjump(c, w, d, k.truthiness, IsCompareContinue(c, d, k.next_addr),
                        l.cond, k.addr), w)
    ELSE IF IfPassElseApplies(c, d, w, k, l, popjump_stack_farthestaddr(d))
    THEN IfPassElse(c, d, w, k, l, popjump_stack_farthestaddr(d))
    ELSE POP_JUMP_IF_cond(c, d, w, k, l,
            PushPop(c, w, d.popjump_stack, k.truthiness, l.jump_addr, l.cond, k.addr))

\* lines 3456-3459: end_true
EndTrue(c, d, k, jump_addr) ==
    IF d.end_addr # NoneAddr /\ AddrGt(jump_addr, d.end_addr) /\ jump_addr = k.j_addr
    THEN d.end_addr
    ELSE AddrGetItem(c, jump_addr, -1)

\* lines 3304-3459: the kind of jump, once cond is known
POP_JUMP_IF_kind(c, d, w, k, jump_addr, cond) ==
    IF k.addr \in w.ternaryop_jumps THEN Ternary(c, d, w, k, jump_addr, cond)
    ELSE IF ~ is_else_jump(w, k.addr)
              /\ (k.is_loop_condition \/ ~ is_continue_jump(c, k.addr))
    THEN POP_JUMP_IF_plain(c, d, w, k, cond,
            IF ~ k.is_loop_condition /\ ~ is_continue_jump(c, k.addr)
            THEN ScanForPass(c, d, k, jump_addr, AddrGetItem(c, k.addr, 1))
            ELSE PassScan(NoneAddr, NoneAddr, jump_addr))
    ELSE IF ~ InList(w.statement_jumps, k.addr)
    THEN Ok(PushPopjump(c, w, d, k.truthiness, jump_addr, cond, k.addr), w)
    ELSE POP_JUMP_IF_stmt(c, d, w, k,
            Locals(jump_addr, cond, EndTrue(c, d, k, jump_addr), k.next_addr))

\* c.chain(cond) needs two PyCompare
NoChain == "AttributeError: object has no attribute 'chain'"

\* lines 3294-3298: a middle jump of a chained comparison
POP_JUMP_IF_inner(c, d1, w, k, jump_addr, cond, pp) ==
    IF ~ pp.ok THEN Raise(d1, w, EmptyPopjumpStack)
    ELSE IF pp.cond.k # "PyCompare" \/ cond.k # "PyCompare" THEN Raise(d1, w, NoChain)
    ELSE Ok(PushPopjump(c, w, [d1 EXCEPT !.popjump_stack = pp.stack], FALSE, jump_addr,
                        chain(MkId("chain", k.addr), pp.cond, cond), k.addr), w)

\* lines 3299-3301: the last jump of a chained comparison
POP_JUMP_IF_end(c, d1, w, k, jump_addr, cond, pp) ==
    IF ~ pp.ok THEN Raise(d1, w, EmptyPopjumpStack)
    ELSE IF pp.cond.k # "PyCompare" \/ cond.k # "PyCompare" THEN Raise(d1, w, NoChain)
    ELSE POP_JUMP_IF_kind(c, [d1 EXCEPT !.popjump_stack = pp.stack], w, k, jump_addr,
                          chain(MkId("chain", k.addr), pp.cond, cond))

\* lines 3288-3302 after `cond = self.stack.pop()` popped p
POP_JUMP_IF_popped(c, d, w, k, jump_addr, p) ==
    IF ~ p.ok THEN Raise(d, w, EmptyStackPopped)
    ELSE IF k.addr \in w.start_chained_jumps
    THEN Ok(PushPopjump(c, w, Popped(d, p), k.truthiness, jump_addr, p.val, k.addr), w)
    ELSE IF k.addr \in w.inner_chained_jumps
    THEN POP_JUMP_IF_inner(c, Popped(d, p), w, k, jump_addr, p.val,
            pop_popjump(d.popjump_stack, MkId("pop_popjump", k.addr)))
    ELSE IF k.addr \in w.end_chained_jumps
    THEN POP_JUMP_IF_end(c, Popped(d, p), w, k, jump_addr, p.val,
            pop_popjump(d.popjump_stack, MkId("pop_popjump", k.addr)))
    ELSE POP_JUMP_IF_kind(c, Popped(d, p), w, k, jump_addr, p.val)

\* lines 3254-3288 with the locals k
POP_JUMP_IF_loop(c, d, w, k) ==
    IF ContinueJumpAsserts(c, w, d, k) THEN Raise(d, w, AssertionError)
    ELSE POP_JUMP_IF_popped(c, d, w, k, JumpAddr(c, w, k), pop1(d.stack))

\* SuiteDecompiler.POP_JUMP_IF
POP_JUMP_IF(c, d, w, addr, truthiness) ==
    IF jump(c, addr) = AddrGetItem(c, addr, 1)
    THEN POP_JUMP_IF_next(c, d, w, addr, truthiness, pop1(d.stack))
    ELSE POP_JUMP_IF_loop(c, d, w, PopJumpIf(c, addr, truthiness, last_loop_context(w, addr)))

POP_JUMP_IF_FALSE(c, d, w, addr) == POP_JUMP_IF(c, d, w, addr, FALSE)

POP_JUMP_IF_TRUE(c, d, w, addr) == POP_JUMP_IF(c, d, w, addr, TRUE)

(***************************************************************************)
(* COMPARE_OP and the stack rotations.                                     *)
(***************************************************************************)
\* TryStatement.add_except_clause on the statement heap[id]
add_except_clause(w, id, type, suite) ==
    HeapSet(w, id, [w.heap[id] EXCEPT !.except_clauses =
                       Append(@, [type |-> type, name |-> PyNone, suite |-> suite])])

\* isinstance(left, TryStatement) of a value on the stack
IsTry(left) == left.k = "Ref" /\ left.cls = "TryStatement"

\* COMPARE_OP, exception match: after d_exc_name.run() returned r
exception_match_named(d1, r) ==
    IF r.exc # "" THEN Raise(d1, r.w, r.exc) ELSE Goto(d1, r.w, END_NOW)

\* COMPARE_OP, exception match, after left.add_except_clause: a handler whose
\* fourth instruction is not POP_TOP stores the name of the exception
exception_match_clause(c, d1, w, addr, left) ==
    IF opcode(c, AddrGetItem(c, addr, 3)) # "POP_TOP"
    THEN exception_match_named(d1,
            run(c, SuiteDecompiler(c, AddrGetItem(c, addr, 3), AddrGetItem(c, addr, 4),
                                   push(NewStack, left)), w))
    ELSE Goto(d1, w, END_NOW)

\* COMPARE_OP, exception match: after d_body.run() returned r
exception_match_ran(c, d1, addr, left, right, r) ==
    IF r.exc # "" THEN Raise(d1, r.w, r.exc)
    ELSE IF ~ IsTry(left)
    THEN Raise(d1, r.w, "AttributeError: add_except_clause")
    ELSE exception_match_clause(c, d1, add_except_clause(r.w, left.id, right, r.d.suite),
                                addr, left)

\* COMPARE_OP, exception match: the suite of the clause, after SETUP_FINALLY
\* when the exception is named
exception_match_body(c, addr) ==
    IF opcode(c, AddrGetItem(c, addr, 5)) = "SETUP_FINALLY"
    THEN SuiteDecompiler(c, AddrGetItem(c, addr, 6), jump(c, AddrGetItem(c, addr, 5)),
                         NewStack)
    ELSE SuiteDecompiler(c, AddrGetItem(c, addr, 5), jump(c, AddrGetItem(c, addr, 1)),
                         NewStack)

\* COMPARE_OP with argument 10: left is the TryStatement, right the type
exception_match(c, d1, w, addr, left, right) ==
    IF AddrGetItem(c, addr, 1) = NoneAddr THEN Raise(d1, w, AttributeErrorNone)
    ELSE IF opcode(c, AddrGetItem(c, addr, 1)) # "POP_JUMP_IF_FALSE"
    THEN Raise(d1, w, AssertionError)
    ELSE IF AddrGetItem(c, addr, 2) = NoneAddr THEN Raise(d1, w, AttributeErrorNone)
    ELSE IF opcode(c, AddrGetItem(c, addr, 2)) # "POP_TOP" THEN Raise(d1, w, AssertionError)
    ELSE IF AddrGetItem(c, addr, 4) = NoneAddr THEN Raise(d1, w, AttributeErrorNone)
    ELSE IF opcode(c, AddrGetItem(c, addr, 4)) # "POP_TOP" THEN Raise(d1, w, AssertionError)
    ELSE IF AddrGetItem(c, addr, 5) = NoneAddr THEN Raise(d1, w, AttributeErrorNone)
    ELSE exception_match_ran(c, d1, addr, left, right,
            run(c, exception_match_body(c, addr),
                IF IsTry(left)
                THEN HeapSet(w, left.id,
                             [w.heap[left.id] EXCEPT !.next_start_except =
                                 jump(c, AddrGetItem(c, addr, 1))])
                ELSE w))

\* COMPARE_OP after `left, right = self.stack.pop(2)` popped p
COMPARE_OP_popped(c, d, w, addr, p) ==
    IF ~ p.ok THEN Raise(d, w, EmptyStackPopped)
    ELSE IF oparg(c, addr) # 10
    THEN Ok([d EXCEPT !.stack =
                push(p.stack, PyCompare(MkId("COMPARE_OP", addr),
                                        <<p.vals[1], CmpOp(cmp_op[oparg(c, addr) + 1]),
                                          p.vals[2]>>))], w)
    ELSE exception_match(c, Popped(d, p), w, addr, p.vals[1], p.vals[2])

\* SuiteDecompiler.COMPARE_OP
COMPARE_OP(c, d, w, addr) == COMPARE_OP_popped(c, d, w, addr, popn(d.stack, 2))

\* the end of the statement a ROT_TWO or ROT_THREE is in, for the search of
\* the stores of a tuple assignment
RotNextStmt(c, d, next_stmt) ==
    IF next_stmt = NoneAddr \/ AddrGt(next_stmt, d.end_block) THEN d.end_addr
    ELSE next_stmt

\* first.seek_forward(unpack_stmt_opcodes, next_stmt) of a first that may be None
NextStore(c, first, next_stmt) ==
    IF first = NoneAddr THEN NoneAddr
    ELSE seek_forward(c, first, unpack_stmt_opcodes, next_stmt)

\* the stores of `x, y = z, t` (count 2) or `x, y, z = a, b, c` (count 3)
\* follow from the address `from` on, before next_stmt
RECURSIVE HasStores(_, _, _, _)
HasStores(c, from, next_stmt, count) ==
    IF count = 0 THEN from # NoneAddr
    ELSE HasStores(c, NextStore(c, from, next_stmt), next_stmt, count - 1)

\* ROT_TWO and ROT_THREE, the special case: the values become one tuple that
\* an Unpack hands to the stores
ROT_unpack(d, w, id, count, p, nxt) ==
    IF ~ p.ok THEN Raise(d, w, EmptyStackPopped)
    ELSE Goto([d EXCEPT !.stack = PushTimes(p.stack, Ref("Unpack", id), count)],
              HeapSet(w, id, Unpack(PyTuple(MkId("ROT", id[2]), p.vals), count)), nxt)

\* ROT_TWO after `tos1, tos = self.stack.pop(2)` popped p
ROT_TWO_popped(d, w, p) ==
    IF ~ p.ok THEN Raise(d, w, EmptyStackPopped)
    ELSE Ok([d EXCEPT !.stack = push(push(p.stack, p.vals[2]), p.vals[1])], w)

\* SuiteDecompiler.ROT_TWO
ROT_TWO(c, d, w, addr) ==
    IF AddrGetItem(c, addr, -1) = NoneAddr THEN Raise(d, w, AttributeErrorNone)
    ELSE IF /\ opcode(c, AddrGetItem(c, addr, -1)) \in EXPR_OPC
            /\ HasStores(c, addr,
                  RotNextStmt(c, d, seek_forward(c, addr,
                      unpack_terminators \cup pop_jump_if_opcodes \cup else_jump_opcodes,
                      NoneAddr)), 2)
    THEN ROT_unpack(d, w, MkId("ROT_TWO", addr), 2, popn(d.stack, 2), NoneAddr)
    ELSE ROT_TWO_popped(d, w, popn(d.stack, 2))

INPLACE_OPC ==
    {"INPLACE_MATRIX_MULTIPLY", "INPLACE_FLOOR_DIVIDE", "INPLACE_TRUE_DIVIDE",
     "INPLACE_ADD", "INPLACE_SUBTRACT", "INPLACE_MULTIPLY", "INPLACE_MODULO",
     "INPLACE_POWER", "INPLACE_LSHIFT", "INPLACE_RSHIFT", "INPLACE_AND", "INPLACE_XOR",
     "INPLACE_OR"}

\* ROT_THREE after `tos2, tos1, tos = self.stack.pop(3)` popped p
ROT_THREE_popped(d, w, p) ==
    IF ~ p.ok THEN Raise(d, w, EmptyStackPopped)
    ELSE Ok([d EXCEPT !.stack =
                push(push(push(p.stack, p.vals[3]), p.vals[1]), p.vals[2])], w)

\* ROT_THREE, line 2704: the rotation belongs to a chained comparison
InChainedCompare(c, addr) ==
    /\ opcode(c, AddrGetItem(c, addr, -1)) = "DUP_TOP"
    /\ opcode(c, AddrGetItem(c, addr, 1)) = "COMPARE_OP"
    /\ opcode(c, AddrGetItem(c, addr, 2))
          \in {"JUMP_IF_FALSE_OR_POP", "POP_JUMP_IF_FALSE", "POP_JUMP_IF_TRUE"}

\* SuiteDecompiler.ROT_THREE
ROT_THREE(c, d, w, addr) ==
    IF \/ AddrGetItem(c, addr, -1) = NoneAddr
       \/ /\ opcode(c, AddrGetItem(c, addr, -1)) = "DUP_TOP"
          /\ \/ AddrGetItem(c, addr, 1) = NoneAddr
             \/ /\ opcode(c, AddrGetItem(c, addr, 1)) = "COMPARE_OP"
                /\ AddrGetItem(c, addr, 2) = NoneAddr
    THEN Raise(d, w, AttributeErrorNone)
    ELSE IF /\ ~ InChainedCompare(c, addr)
            /\ opcode(c, AddrGetItem(c, addr, -1)) \notin INPLACE_OPC
            /\ HasStores(c, AddrGetItem(c, addr, 1),
                  RotNextStmt(c, d, seek_forward(c, addr,
                      unpack_terminators \cup pop_jump_if_opcodes \cup else_jump_opcodes,
                      NoneAddr)), 3)
    THEN ROT_unpack(d, w, MkId("ROT_THREE", addr), 3, popn(d.stack, 3),
                    AddrGetItem(c, addr, 2))
    ELSE ROT_THREE_popped(d, w, popn(d.stack, 3))

(***************************************************************************)
(* JUMP_IF_FALSE_OR_POP and JUMP_IF_TRUE_OR_POP: `and` and `or` whose      *)
(* value is used, and the chained comparison whose value is used.          *)
(***************************************************************************)
NoneNotOrderable == "TypeError: '<' not supported between 'NoneType' and 'Address'"

\* the operand decompilers of these handlers work on the stack of the
\* decompiler that made them: what they left is the parent's stack
Shared(d1, r) == [d1 EXCEPT !.stack = r.d.stack]

\* JUMP_IF_FALSE_OR_POP, lines 3193-3196: curaddr is the comparison of an
\* inner link of the chain, followed by a jump to the same target as addr
IsChainLink(c, addr, curaddr) ==
    /\ opcode(c, curaddr) = "COMPARE_OP"
    /\ opcode(c, AddrGetItem(c, curaddr, -2)) = "DUP_TOP"
    /\ opcode(c, AddrGetItem(c, curaddr, -1)) = "ROT_THREE"
    /\ opcode(c, AddrGetItem(c, curaddr, 1)) = "JUMP_IF_FALSE_OR_POP"
    /\ oparg(c, AddrGetItem(c, curaddr, 1)) = oparg(c, addr)

\* the test of IsChainLink reads the opcode of None
ChainLinkRaises(c, curaddr) ==
    /\ opcode(c, curaddr) = "COMPARE_OP"
    /\ \/ AddrGetItem(c, curaddr, -2) = NoneAddr
       \/ /\ opcode(c, AddrGetItem(c, curaddr, -2)) = "DUP_TOP"
          /\ opcode(c, AddrGetItem(c, curaddr, -1)) = "ROT_THREE"
          /\ AddrGetItem(c, curaddr, 1) = NoneAddr

RECURSIVE JIFOP_chain_loop(_, _, _, _, _, _, _, _)

\* lines 3198-3200 after `c = d.stack.pop()` popped p: cond = cond.chain(c)
JIFOP_chain_linked(c, d1, w, addr, end_addr, curaddr, cond, p) ==
    IF ~ p.ok THEN Raise(d1, w, EmptyStackPopped)
    ELSE IF cond.k # "PyCompare" \/ p.val.k # "PyCompare"
    THEN Raise(d1, w, "AttributeError: chain")
    ELSE JIFOP_chain_loop(c, Popped(d1, p), w, addr, end_addr,
                          AddrGetItem(c, curaddr, 1), AddrGetItem(c, curaddr, 2),
                          chain(MkId("JUMP_IF_FALSE_OR_POP", curaddr), cond, p.val))

\* lines 3197-3198 after d.run() returned r
JIFOP_chain_link(c, d1, addr, end_addr, curaddr, cond, r) ==
    IF r.exc # "" THEN Raise(Shared(d1, r), r.w, r.exc)
    ELSE JIFOP_chain_linked(c, d1, r.w, addr, end_addr, curaddr, cond, pop1(r.d.stack))

\* lines 3204-3207 after `c = d.stack.pop()` popped p
JIFOP_chain_pushed(c, d1, w, addr, end_addr, cond, p) ==
    IF ~ p.ok THEN Raise(d1, w, EmptyStackPopped)
    ELSE IF cond.k # "PyCompare" \/ p.val.k # "PyCompare"
    THEN Raise(d1, w, "AttributeError: chain")
    ELSE Goto([d1 EXCEPT !.stack =
                  push(p.stack, chain(MkId("JUMP_IF_FALSE_OR_POP", addr), cond, p.val))],
              w, AddrGetItem(c, end_addr, 2))

\* lines 3202-3203 after d.run() returned r
JIFOP_chain_last(c, d1, addr, end_addr, cond, r) ==
    IF r.exc # "" THEN Raise(Shared(d1, r), r.w, r.exc)
    ELSE JIFOP_chain_pushed(c, d1, r.w, addr, end_addr, cond, pop1(r.d.stack))

\* lines 3192-3203: `while curaddr < end_addr`, then the last operand
JIFOP_chain_loop(c, d1, w, addr, end_addr, curaddr, start_addr, cond) ==
    IF curaddr = NoneAddr THEN Raise(d1, w, NoneNotOrderable)
    ELSE IF ~ AddrLt(curaddr, end_addr)
    THEN JIFOP_chain_last(c, d1, addr, end_addr, cond,
            run(c, SuiteDecompiler(c, start_addr, AddrGetItem(c, end_addr, -1), d1.stack),
                w))
    ELSE IF ChainLinkRaises(c, curaddr) THEN Raise(d1, w, AttributeErrorNone)
    ELSE IF IsChainLink(c, addr, curaddr)
    THEN JIFOP_chain_link(c, d1, addr, end_addr, curaddr, cond,
            run(c, SuiteDecompiler(c, start_addr, AddrGetItem(c, curaddr, 1), d1.stack),
                w))
    ELSE JIFOP_chain_loop(c, d1, w, addr, end_addr, AddrGetItem(c, curaddr, 1),
                          start_addr, cond)

\* lines 3189-3191 after `cond = self.stack.pop()` popped p
JIFOP_chain(c, d, w, addr, p) ==
    IF ~ p.ok THEN Raise(d, w, EmptyStackPopped)
    ELSE JIFOP_chain_loop(c, Popped(d, p), w, addr, jump(c, addr),
                          AddrGetItem(c, addr, 1), AddrGetItem(c, addr, 1), p.val)

\* after `right = self.stack.pop()` popped p: push the PyBooleanAnd or
\* PyBooleanOr of both operands and return end_addr
JUMP_IF_OR_POP_right(c, d1, w, addr, cls, left, p) ==
    IF ~ p.ok THEN Raise(d1, w, EmptyStackPopped)
    ELSE Goto([d1 EXCEPT !.stack =
                  push(p.stack, BoolMaker(cls, MkId(opcode(c, addr), addr), left, p.val,
                                          DefaultCollision(left, p.val)))],
              w, jump(c, addr))

\* after d.run() over the right operand returned r
JUMP_IF_OR_POP_ran(c, d1, addr, cls, left, r) ==
    IF r.exc # "" THEN Raise(Shared(d1, r), r.w, r.exc)
    ELSE JUMP_IF_OR_POP_right(c, d1, r.w, addr, cls, left, pop1(r.d.stack))

\* after push_popjump and `left = self.pop_popjump()`
JUMP_IF_OR_POP_left(c, d1, w, addr, cls, pp) ==
    IF ~ pp.ok THEN Raise(d1, w, EmptyPopjumpStack)
    ELSE JUMP_IF_OR_POP_ran(c, [d1 EXCEPT !.popjump_stack = pp.stack], addr, cls, pp.cond,
            run(c, SuiteDecompiler(c, AddrGetItem(c, addr, 1), jump(c, addr), d1.stack), w))

\* the part both handlers share, after self.stack.pop() popped p
JUMP_IF_OR_POP(c, d, w, addr, truthiness, cls, p) ==
    IF ~ p.ok THEN Raise(d, w, EmptyStackPopped)
    ELSE JUMP_IF_OR_POP_left(c, Popped(d, p), w, addr, cls,
            PushPop(c, w, d.popjump_stack, truthiness, jump(c, addr), p.val, addr))

\* SuiteDecompiler.JUMP_IF_FALSE_OR_POP
JUMP_IF_FALSE_OR_POP(c, d, w, addr) ==
    IF /\ AddrGetItem(c, addr, -3) # NoneAddr
       /\ opcode(c, AddrGetItem(c, addr, -1)) = "COMPARE_OP"
       /\ opcode(c, AddrGetItem(c, addr, -2)) = "ROT_THREE"
       /\ opcode(c, AddrGetItem(c, addr, -3)) = "DUP_TOP"
    THEN JIFOP_chain(c, d, w, addr, pop1(d.stack))
    ELSE JUMP_IF_OR_POP(c, d, w, addr, FALSE, "PyBooleanAnd", pop1(d.stack))

\* SuiteDecompiler.JUMP_IF_TRUE_OR_POP
JUMP_IF_TRUE_OR_POP(c, d, w, addr) ==
    JUMP_IF_OR_POP(c, d, w, addr, TRUE, "PyBooleanOr", pop1(d.stack))

(***************************************************************************)
(* SETUP_FINALLY and SETUP_EXCEPT: try statements.                         *)
(***************************************************************************)
NoneNotSubscriptable == "TypeError: 'NoneType' object is not subscriptable"

\* SETUP_FINALLY after d_finally.run() returned r
SETUP_FINALLY_finally(c, d, addr, try_suite, r) ==
    IF r.exc # "" THEN Raise(d, r.w, r.exc)
    ELSE IF r.addr # NoneAddr /\ opcode(c, r.addr) = "END_FINALLY"
    THEN Goto(add_statement(d, FinallyStatement(addr, try_suite, r.d.suite)), r.w,
              AddrGetItem(c, r.addr, 1))
    ELSE Goto(add_statement(d, FinallyStatement(addr, try_suite, r.d.suite)), r.w,
              END_NOW)

\* SETUP_FINALLY after d_try.run() returned r: the finally suite runs up to
\* its END_FINALLY
SETUP_FINALLY_try(c, d, addr, r) ==
    IF r.exc # "" THEN Raise(d, r.w, r.exc)
    ELSE SETUP_FINALLY_finally(c, d, addr, r.d.suite,
            run(c, [SuiteDecompiler(c, jump(c, addr), NoneAddr, NewStack)
                       EXCEPT !.find_end_finally = TRUE], r.w))

\* SuiteDecompiler.SETUP_FINALLY
SETUP_FINALLY(c, d, w, addr) ==
    SETUP_FINALLY_try(c, d, addr,
        run(c, SuiteDecompiler(c, AddrGetItem(c, addr, 1), jump(c, addr), NewStack), w))

\* the locals of SETUP_EXCEPT that its loop over the clauses assigns
ExceptLoop(start_except, j_except, end_addr) ==
    [start_except |-> start_except, j_except |-> j_except, end_addr |-> end_addr]

\* SETUP_EXCEPT, lines 2597-2600 after d_else.run() returned r
SETUP_EXCEPT_else_ran(d1, id, end_else, r) ==
    IF r.exc # "" THEN Raise(d1, r.w, r.exc)
    ELSE Goto(d1, HeapSet(r.w, id, [r.w.heap[id] EXCEPT !.else_suite = r.d.suite]),
              end_else)

\* SETUP_EXCEPT, lines 2597-2598: the else suite
SETUP_EXCEPT_else(c, d1, w, id, start_else, end_else) ==
    SETUP_EXCEPT_else_ran(d1, id, end_else,
        run(c, SuiteDecompiler(c, start_else, end_else, NewStack), w))

\* has_nested_if_else_clause, line 2579, for a j_except that is a JUMP_ABSOLUTE
has_nested_if_else_clause(c, d1, j) ==
    /\ AddrGetItem(c, d1.end_block, 1) # NoneAddr
    /\ AddrGt(jump(c, j), AddrGetItem(c, d1.end_block, 1))
    /\ opcode(c, AddrGetItem(c, d1.end_block, 1)) = "JUMP_FORWARD"

\* SETUP_EXCEPT, lines 2572-2601, after self.suite.add_statement(stmt): the
\* else clause, found from the jump j that ends the handlers
SETUP_EXCEPT_after(c, d1, w, addr, id, end_addr, j) ==
    IF j = NoneAddr THEN Raise(d1, w, NoneNotSubscriptable)
    ELSE IF opcode(c, AddrGetItem(c, j, 1)) # "END_FINALLY" THEN Goto(d1, w, end_addr)
    ELSE IF opcode(c, j) = "JUMP_FORWARD"
    THEN IF AddrGetItem(c, j, 2) # jump(c, j)
         THEN SETUP_EXCEPT_else(c, d1, w, id, AddrGetItem(c, j, 2), jump(c, j))
         ELSE Goto(d1, w, end_addr)
    ELSE IF opcode(c, j) = "JUMP_ABSOLUTE" /\ is_continue_jump(c, j)
    THEN IF is_continue_jump(c, AddrGetItem(c, jump(c, addr), -1))
         THEN Goto(d1, w, end_addr)
         ELSE SETUP_EXCEPT_else(c, d1, w, id, AddrGetItem(c, j, 2), d1.end_addr)
    ELSE IF opcode(c, j) = "RETURN_VALUE"
    THEN IF \/ AddrGetItem(c, j, 2) = NoneAddr
            \/ /\ opcode(c, AddrGetItem(c, j, 2)) = "JUMP_ABSOLUTE"
               /\ AddrGetItem(c, j, 3) = NoneAddr
         THEN Raise(d1, w, AttributeErrorNone)
         ELSE Goto(d1, w, end_addr)
    ELSE IF opcode(c, j) = "JUMP_ABSOLUTE" /\ has_nested_if_else_clause(c, d1, j)
    THEN SETUP_EXCEPT_else(c, d1, w, id, AddrGetItem(c, j, 2),
                           AddrGetItem(c, d1.end_block, 1))
    ELSE Goto(d1, w, end_addr)

RECURSIVE SETUP_EXCEPT(_, _, _, _)
RECURSIVE SETUP_EXCEPT_loop(_, _, _, _, _, _, _)
RECURSIVE BareScan(_, _, _, _)

\* what the search for the POP_EXCEPT of a bare clause found
Scanned(w, exc, at) == [w |-> w, exc |-> exc, at |-> at]

\* lines 2507-2509 after the SETUP_EXCEPT of a nested try returned r
BareScan_nested(c, end_except, fend, r) ==
    IF r.exc # "" THEN Scanned(r.w, r.exc, end_except)
    ELSE BareScan(c, r.w, AddrGetItem(c, end_except, 1), fend)

\* lines 2506-2512: `while end_except < fend`, up to a POP_EXCEPT; a nested
\* try is decompiled on the way and the result dropped
BareScan(c, w, end_except, fend) ==
    IF end_except = NoneAddr THEN Scanned(w, NoneNotOrderable, end_except)
    ELSE IF ~ AddrLt(end_except, fend) THEN Scanned(w, "", end_except)
    ELSE IF opcode(c, end_except) = "SETUP_EXCEPT"
    THEN BareScan_nested(c, end_except, fend,
            SETUP_EXCEPT(c, SuiteDecompiler(c, end_except, fend, NewStack), w, end_except))
    ELSE IF opcode(c, end_except) = "POP_EXCEPT" THEN Scanned(w, "", end_except)
    ELSE BareScan(c, w, AddrGetItem(c, end_except, 1), fend)

\* the j_except a clause leaves: the jump that ends the clause replaces it
\* when there is none yet, when that jump is a JUMP_FORWARD, or when the one
\* kept is a RETURN_VALUE
NextJExcept(c, j_except, last) ==
    IF j_except = NoneAddr \/ opcode(c, last) = "JUMP_FORWARD"
         \/ opcode(c, j_except) = "RETURN_VALUE"
    THEN last ELSE j_except

\* lines 2513-2522 after d_except.run() returned r: the bare clause ends at
\* the POP_EXCEPT end_except
Bare_clause(c, d, addr, id, fend, s, end_except, r) ==
    IF r.exc # "" THEN Raise(d, r.w, r.exc)
    ELSE IF AddrGetItem(c, end_except, 2) = NoneAddr THEN Raise(d, r.w, AttributeErrorNone)
    ELSE IF opcode(c, AddrGetItem(c, end_except, 2)) # "END_FINALLY"
    THEN Raise(d, r.w, AssertionError)
    ELSE SETUP_EXCEPT_loop(c, d, add_except_clause(r.w, id, PyNone, r.d.suite), addr, id,
            fend,
            ExceptLoop(AddrGetItem(c, end_except, 2),
                       NextJExcept(c, s.j_except, AddrGetItem(c, end_except, 1)),
                       AddrGetItem(c, end_except, 3)))

\* lines 2529-2533 after d_else.run() returned r
Bare_return_else_ran(d, id, end_addr, r) ==
    IF r.exc # "" THEN Raise(d, r.w, r.exc)
    ELSE Goto(add_statement(d, Ref("TryStatement", id)),
              HeapSet(r.w, id, [r.w.heap[id] EXCEPT !.else_suite = r.d.suite]), end_addr)

\* lines 2526-2530 after d_except.run() returned r
Bare_return_else(c, d, id, fend, s, r) ==
    IF r.exc # "" THEN Raise(d, r.w, r.exc)
    ELSE Bare_return_else_ran(d, id, jump(c, s.j_except),
            run(c, SuiteDecompiler(c, fend, jump(c, s.j_except), NewStack),
                add_except_clause(r.w, id, PyNone, r.d.suite)))

\* lines 2538-2553 when the suite of the clause is not empty: the loop over
\* the statements has bound the name stmt to the statement `target`, the first
\* return or else the last one; what follows position n goes to its else
\* suite and the clause is added to it
Bare_return_rebound(d, w, end_addr, stmts, target, n) ==
    IF ~ IsTry(target) THEN Raise(d, w, "AttributeError: add_except_clause")
    ELSE Goto(add_statement(d, target),
              add_except_clause(
                  IF n < Len(stmts)
                  THEN HeapSet(w, target.id,
                               [w.heap[target.id] EXCEPT !.else_suite = Suite(From(stmts, n))])
                  ELSE w,
                  target.id, PyNone,
                  Suite(IF n < Len(stmts) THEN Upto(stmts, n) ELSE stmts)),
              end_addr)

\* lines 2535-2553 after d_except.run() returned r
Bare_return(c, d, id, end_addr, r) ==
    IF r.exc # "" THEN Raise(d, r.w, r.exc)
    ELSE IF r.d.suite.statements = <<>>
    THEN Goto(add_statement(d, Ref("TryStatement", id)),
              add_except_clause(r.w, id, PyNone, r.d.suite), end_addr)
    ELSE Bare_return_rebound(d, r.w, end_addr, r.d.suite.statements,
            r.d.suite.statements[IF FirstReturn(r.d.suite.statements) = 0
                                 THEN Len(r.d.suite.statements)
                                 ELSE FirstReturn(r.d.suite.statements)],
            FirstReturn(r.d.suite.statements))

\* lines 2555-2563 after `end_except = d_except.run()` returned r
Bare_scan_else(c, d, id, r) ==
    IF r.exc # "" THEN Raise(d, r.w, r.exc)
    ELSE IF r.addr = NoneAddr THEN Raise(d, r.w, AttributeErrorNone)
    ELSE IF opcode(c, r.addr) # "RETURN_VALUE" THEN Raise(d, r.w, AssertionError)
    ELSE Goto(add_statement(d, Ref("TryStatement", id)),
              add_except_clause(r.w, id, PyNone, r.d.suite), AddrGetItem(c, r.addr, 1))

\* lines 2514-2568: the bare clause that starts at `start`, once the search
\* for its POP_EXCEPT stopped at sc.at
Bare_found(c, d, addr, id, fend, s, start, sc) ==
    IF sc.exc # "" THEN Raise(d, sc.w, sc.exc)
    ELSE IF opcode(c, sc.at) = "POP_EXCEPT"
    THEN Bare_clause(c, d, addr, id, fend, s, sc.at,
            run(c, SuiteDecompiler(c, start, sc.at, NewStack), sc.w))
    ELSE IF s.j_except # NoneAddr /\ opcode(c, s.j_except) = "JUMP_FORWARD"
    THEN IF opcode(c, AddrGetItem(c, jump(c, addr), -1)) = "JUMP_FORWARD"
         THEN Bare_return_else(c, d, id, fend, s,
                 run(c, SuiteDecompiler(c, start, fend, NewStack), sc.w))
         ELSE Bare_return(c, d, id, jump(c, s.j_except),
                 run(c, SuiteDecompiler(c, start, jump(c, s.j_except), NewStack), sc.w))
    ELSE Bare_scan_else(c, d, id,
            run(c, [SuiteDecompiler(c, start,
                        IF fend = d.end_block THEN d.end_addr ELSE fend, NewStack)
                    EXCEPT !.scan_for_else = TRUE], sc.w))

\* lines 2492-2496 after d_except.run() returned r: the COMPARE_OP of the
\* clause left the start of the next one in stmt.next_start_except
Typed_clause(c, d, addr, id, fend, s, r) ==
    IF r.exc # "" THEN Raise(d, r.w, r.exc)
    ELSE IF r.w.heap[id].next_start_except = UNBOUND
    THEN Raise(d, r.w, "AttributeError: next_start_except")
    ELSE IF r.w.heap[id].next_start_except = NoneAddr
    THEN Raise(d, r.w, NoneNotSubscriptable)
    ELSE IF s.j_except # NoneAddr
              /\ AddrGetItem(c, r.w.heap[id].next_start_except, -1) = NoneAddr
    THEN Raise(d, r.w, AttributeErrorNone)
    ELSE SETUP_EXCEPT_loop(c, d, r.w, addr, id, fend,
            ExceptLoop(r.w.heap[id].next_start_except,
                       NextJExcept(c, s.j_except,
                                   AddrGetItem(c, r.w.heap[id].next_start_except, -1)),
                       AddrGetItem(c, r.w.heap[id].next_start_except, 1)))

\* lines 2486-2570: one turn of `while start_except.opcode != END_FINALLY`;
\* s holds the locals start_except, j_except and end_addr.  An instruction
\* that opens no clause leaves the locals as they are, and the loop of the
\* source never ends
SETUP_EXCEPT_loop(c, d, w, addr, id, fend, s) ==
    IF s.start_except = NoneAddr THEN Raise(d, w, AttributeErrorNone)
    ELSE IF opcode(c, s.start_except) = "END_FINALLY"
    THEN SETUP_EXCEPT_after(c, add_statement(d, Ref("TryStatement", id)), w, addr, id,
                            s.end_addr, s.j_except)
    ELSE IF opcode(c, s.start_except) = "DUP_TOP"
    THEN Typed_clause(c, d, addr, id, fend, s,
            run(c, SuiteDecompiler(c, AddrGetItem(c, s.start_except, 1), NoneAddr,
                                   push(NewStack, Ref("TryStatement", id))), w))
    ELSE IF opcode(c, s.start_except) = "POP_TOP"
    THEN Bare_found(c, d, addr, id, fend, s, AddrGetItem(c, s.start_except, 3),
            BareScan(c, w, AddrGetItem(c, s.start_except, 3), fend))
    ELSE Raise(d, w, "the loop over the except clauses does not end")

\* lines 2481-2485 after d_try.run() returned r
SETUP_EXCEPT_tried(c, d, addr, id, r) ==
    IF r.exc # "" THEN Raise(d, r.w, r.exc)
    ELSE IF jump(c, addr) = NoneAddr THEN Raise(d, r.w, NoneNotSubscriptable)
    ELSE SETUP_EXCEPT_loop(c, d, HeapSet(r.w, id, TryStatement(r.d.suite)), addr, id,
            IF opcode(c, AddrGetItem(c, jump(c, addr), -1)) = "JUMP_FORWARD"
            THEN jump(c, AddrGetItem(c, jump(c, addr), -1))
            ELSE d.end_block,
            ExceptLoop(jump(c, addr), NoneAddr, addr))

\* SuiteDecompiler.SETUP_EXCEPT
SETUP_EXCEPT(c, d, w, addr) ==
    SETUP_EXCEPT_tried(c, d, addr, MkId("SETUP_EXCEPT", addr),
        run(c, SuiteDecompiler(c, AddrGetItem(c, addr, 1), jump(c, addr), NewStack), w))

(***************************************************************************)
(* Loops: SETUP_LOOP with verify_loop_laststmt, BREAK_LOOP, CONTINUE_LOOP  *)
(* and JUMP_ABSOLUTE.                                                      *)
(***************************************************************************)
\* what verify_loop_laststmt returns and does: ok is the value returned, ss
\* the suite after the assignment to stmt.val, w the world after the moves
\* between code.qcjumps and code.statement_jumps
Verified(ok, ss, w, exc) == [ok |-> ok, ss |-> ss, w |-> w, exc |-> exc]

\* the positions of self.code.qcjumps with startaddr <= addr < endaddr
QcjumpsWithin(w, startaddr, endaddr) ==
    {i \in 1..Len(w.qcjumps) :
        /\ startaddr # NoneAddr /\ startaddr <= w.qcjumps[i]
        /\ AddrLt(w.qcjumps[i], endaddr)}

\* list.remove of the element at position i
RemoveAt(list, i) == SubSeq(list, 1, i - 1) \o SubSeq(list, i + 1, Len(list))

\* verify_loop_laststmt, lines 2385-2390: the first of qcjumps inside the
\* loop becomes a statement jump
\* a verify_loop_laststmt that promotes the jump and accepts the suite of the
\* run before the promotion
verify_loop_return_once(d, ss, w, found) ==
    IF found = {} THEN Verified(TRUE, ss, w, "")
    ELSE Verified(TRUE, ss,
            [w EXCEPT !.statement_jumps =
                          Append(@, w.qcjumps[CHOOSE i \in found : \A j \in found : i <= j]),
                      !.qcjumps = RemoveAt(@, CHOOSE i \in found : \A j \in found : i <= j)],
            "")

verify_loop_return(d, ss, w, found) ==
    IF found = {} THEN Verified(TRUE, ss, w, "")
    ELSE Verified(FALSE, ss,
            [w EXCEPT !.statement_jumps =
                          Append(@, w.qcjumps[CHOOSE i \in found : \A j \in found : i <= j]),
                      !.qcjumps = RemoveAt(@, CHOOSE i \in found : \A j \in found : i <= j)],
            "")

\* the last statement of the body is left as it is
verify_loop_laststmt_unchanged(c, d, w, ss, startaddr, endaddr) == Verified(TRUE, ss, w, "")

\* SuiteDecompiler.verify_loop_laststmt
verify_loop_laststmt(c, d, w, ss, startaddr, endaddr) ==
    IF ss.k # "Suite" THEN Verified(TRUE, ss, w, "AttributeError: statements")
    ELSE IF ss.statements = <<>> THEN Verified(TRUE, ss, w, "")
    ELSE IF ss.statements[Len(ss.statements)].k # "SimpleStatement"
    THEN Verified(TRUE, ss, w, "")
    ELSE IF d.end_block = NoneAddr
    THEN Verified(TRUE, ss, w,
                  "AttributeError: 'NoneType' object has no attribute 'is_continue_jump'")
    ELSE IF ~ is_continue_jump(c, d.end_block) THEN Verified(TRUE, ss, w, "")
    ELSE IF IsSimple(ss.statements[Len(ss.statements)], "continue")
              /\ InLinemap(c, d.end_block)
    THEN Verified(TRUE,
                  [ss EXCEPT !.statements[Len(ss.statements)] = SetPass(@)], w, "")
    ELSE IF IsReturn(ss.statements[Len(ss.statements)]) /\ ~ InLinemap(c, d.end_block)
    THEN verify_loop_return(d, ss, w, QcjumpsWithin(w, startaddr, endaddr))
    ELSE Verified(TRUE, ss, w, "")

\* SuiteDecompiler.BREAK_LOOP
BREAK_LOOP(c, d, w, addr) == Ok(write(d, addr, <<"break">>), w)

\* SuiteDecompiler.CONTINUE_LOOP
CONTINUE_LOOP(c, d, w, addr) == Ok(write(d, addr, <<"continue">>), w)

\* SuiteDecompiler.JUMP_ABSOLUTE: a jump back to the head of the loop that
\* starts a line is a continue statement
JUMP_ABSOLUTE(c, d, w, addr) ==
    IF is_continue_jump(c, addr) /\ InLinemap(c, addr)
    THEN Ok(add_statement(d, SimpleStatement(addr, <<"continue">>)), w)
    ELSE Ok(d, w)

\* SETUP_LOOP: `for wcontext in self.code.loops` stops at the entry of addr
\* and else leaves the last entry in wcontext
LoopOf(w, addr) ==
    IF \E i \in 1..Len(w.loops) : w.loops[i][1] = addr
    THEN w.loops[CHOOSE i \in 1..Len(w.loops) :
                    /\ w.loops[i][1] = addr
                    /\ \A j \in 1..(i - 1) : w.loops[j][1] # addr]
    ELSE w.loops[Len(w.loops)]

\* lines 2427-2432 after d_else.run() returned r: the while statement with
\* its else suite
SETUP_LOOP_else_ran(d, while_stmt, jump_addr, r) ==
    IF r.exc # "" THEN Raise(d, r.w, r.exc)
    ELSE Goto(add_statement(d, [while_stmt EXCEPT !.else_body = r.d.suite]), r.w, jump_addr)

\* lines 2427-2432: the else suite runs from the instruction after the
\* POP_BLOCK the condition jumps to
SETUP_LOOP_while(c, d, w, while_stmt, end_cond_j, jump_addr) ==
    IF end_cond_j = NoneAddr THEN Raise(d, w, AttributeErrorNone)
    ELSE IF opcode(c, end_cond_j) = "POP_BLOCK"
    THEN SETUP_LOOP_else_ran(d, while_stmt, jump_addr,
            run(c, SuiteDecompiler(c, AddrGetItem(c, end_cond_j, 1), jump_addr, NewStack), w))
    ELSE Goto(add_statement(d, while_stmt), w, jump_addr)

RECURSIVE SETUP_LOOP_body(_, _, _, _, _, _)
RECURSIVE SETUP_LOOP_true(_, _, _, _, _)

\* a SETUP_LOOP that takes the false suite of the IfStatement result as the
\* body of the loop
SETUP_LOOP_verified_false(c, d, addr, end_cond, jump_addr, result, v) ==
    IF v.exc # "" THEN Raise(d, v.w, v.exc)
    ELSE IF ~ v.ok THEN SETUP_LOOP_body(c, d, v.w, addr, end_cond, jump_addr)
    ELSE SETUP_LOOP_while(c, d, v.w,
                          WhileStatement(addr, result.cond, result.false_suite, PyNone),
                          jump(c, end_cond), jump_addr)

\* lines 2413-2415 and 2426: verify_loop_laststmt returned v for the true
\* suite of the IfStatement result; False runs the body again
SETUP_LOOP_verified(c, d, addr, end_cond, jump_addr, result, v) ==
    IF v.exc # "" THEN Raise(d, v.w, v.exc)
    ELSE IF ~ v.ok THEN SETUP_LOOP_body(c, d, v.w, addr, end_cond, jump_addr)
    ELSE SETUP_LOOP_while(c, d, v.w, WhileStatement(addr, result.cond, v.ss, PyNone),
                          jump(c, end_cond), jump_addr)

\* lines 2424-2426 after d_else.run() returned r
SETUP_LOOP_unrecognised_ran(d1, while_stmt, jump_addr, r) ==
    IF r.exc # "" THEN Raise(d1, r.w, r.exc)
    ELSE Goto(add_statement(add_statement(d1, [while_stmt EXCEPT !.else_body = r.d.suite]),
                  SimpleStatement(jump_addr, <<"\"\"\"unpyc3: ------------------------\"\"\"">>)),
              r.w, jump_addr)

\* lines 2417-2426: the body did not end with an IfStatement; v is what
\* verify_loop_laststmt did to the rest of the body
SETUP_LOOP_unrecognised(c, d1, addr, end_cond_j, jump_addr, v) ==
    IF v.exc # "" THEN Raise(d1, v.w, v.exc)
    ELSE IF end_cond_j = NoneAddr THEN Raise(d1, v.w, AttributeErrorNone)
    ELSE IF opcode(c, end_cond_j) = "POP_BLOCK"
    THEN SETUP_LOOP_unrecognised_ran(d1,
            WhileStatement(addr, PyName(MkId("SETUP_LOOP", addr), "unrecognised"), v.ss,
                           PyNone),
            jump_addr,
            run(c, SuiteDecompiler(c, AddrGetItem(c, end_cond_j, 1), jump_addr, NewStack),
                v.w))
    ELSE Goto(add_statement(add_statement(d1,
                  WhileStatement(addr, PyName(MkId("SETUP_LOOP", addr), "unrecognised"),
                                 v.ss, PyNone)),
                  SimpleStatement(jump_addr, <<"\"\"\"unpyc3: ------------------------\"\"\"">>)),
              v.w, jump_addr)

\* lines 2411-2417 once the last statement of the body is popped as result
\* and rest is the body without it
SETUP_LOOP_result(c, d, addr, end_cond, jump_addr, r, result, rest) ==
    IF result.k = "IfStatement"
    THEN SETUP_LOOP_verified(c, d, addr, end_cond, jump_addr, result,
            verify_loop_laststmt(c, r.d, r.w, result.true_suite, end_cond,
                                 jump(c, end_cond)))
    ELSE SETUP_LOOP_unrecognised(c,
            add_statement(d, SimpleStatement(addr,
                <<"\"\"\"unpyc3: decompilation error: while condition isnt IfStatement\"\"\"">>)),
            addr, jump(c, end_cond), jump_addr,
            verify_loop_laststmt(c, r.d, r.w, Suite(rest), end_cond, jump(c, end_cond)))

\* lines 2411-2412 after d_body.run() returned r
SETUP_LOOP_body_ran(c, d, addr, end_cond, jump_addr, r) ==
    IF r.exc # "" THEN Raise(d, r.w, r.exc)
    ELSE IF r.d.suite.statements = <<>> THEN Raise(d, r.w, "IndexError: pop from empty list")
    ELSE SETUP_LOOP_result(c, d, addr, end_cond, jump_addr, r,
            r.d.suite.statements[Len(r.d.suite.statements)],
            Upto(r.d.suite.statements, Len(r.d.suite.statements) - 1))

\* lines 2408-2411: the loop with a condition; its body runs from the
\* condition up to the target of end_cond
SETUP_LOOP_body(c, d, w, addr, end_cond, jump_addr) ==
    SETUP_LOOP_body_ran(c, d, addr, end_cond, jump_addr,
        run(c, SuiteDecompiler(c, AddrGetItem(c, addr, 1), jump(c, end_cond), NewStack), w))

\* lines 2437-2441: verify_loop_laststmt returned v for the body of `while True`
SETUP_LOOP_true_verified(c, d, addr, jump_addr, v) ==
    IF v.exc # "" THEN Raise(d, v.w, v.exc)
    ELSE IF ~ v.ok THEN SETUP_LOOP_true(c, d, v.w, addr, jump_addr)
    ELSE Goto(add_statement(d,
                  WhileStatement(addr, PyConst(MkId("SETUP_LOOP", addr),
                                               ConstVal("bool", "True")), v.ss, PyNone)),
              v.w, jump_addr)

\* lines 2436-2437 after d_body.run() returned r
SETUP_LOOP_true_ran(c, d, addr, jump_addr, r) ==
    IF r.exc # "" THEN Raise(d, r.w, r.exc)
    ELSE SETUP_LOOP_true_verified(c, d, addr, jump_addr,
            verify_loop_laststmt(c, r.d, r.w, r.d.suite, AddrGetItem(c, addr, 1),
                                 AddrGetItem(c, jump_addr, -1)))

\* lines 2433-2436: the loop without a condition, `while True`
SETUP_LOOP_true(c, d, w, addr, jump_addr) ==
    SETUP_LOOP_true_ran(c, d, addr, jump_addr,
        run(c, SuiteDecompiler(c, AddrGetItem(c, addr, 1), AddrGetItem(c, jump_addr, -1),
                               NewStack), w))

\* SETUP_LOOP once wcontext is found: (start, end_cond, end) of the loop;
\* a for loop is left to FOR_ITER
SETUP_LOOP_context(c, d, w, addr, wcontext) ==
    IF wcontext[2] < 0 THEN Ok(d, w)
    ELSE IF CodeGetItem(c, wcontext[3]) = NoneAddr THEN Raise(d, w, NoneNotSubscriptable)
    ELSE IF wcontext[2] > 0
    THEN IF CodeGetItem(c, wcontext[2]) = NoneAddr
         THEN Raise(d, w, "AttributeError: 'NoneType' object has no attribute 'jump'")
         ELSE SETUP_LOOP_body(c, d, w, addr, wcontext[2], wcontext[3])
    ELSE SETUP_LOOP_true(c, d, w, addr, wcontext[3])

\* SuiteDecompiler.SETUP_LOOP
SETUP_LOOP(c, d, w, addr) ==
    IF w.loops = <<>>
    THEN Raise(d, w, "UnboundLocalError: local variable 'wcontext' referenced before assignment")
    ELSE SETUP_LOOP_context(c, d, w, addr, LoopOf(w, addr))

(***************************************************************************)
(* code_walker: the decoding of co_code, an array of bytes, into the       *)
(* items (addr, (op, oparg)) of Code.instr_seq.  In an item the opcode is   *)
(* written as its name in opcode.opname, as everywhere in the model.       *)
(***************************************************************************)
\* opcode.opname of CPython 3.7, for the bytes the model draws
opname(b) ==
    CASE b = 0 -> "<0>"
      [] b = 1 -> "POP_TOP"
      [] b = 9 -> "NOP"
      [] b = 23 -> "BINARY_ADD"
      [] b = 83 -> "RETURN_VALUE"
      [] b = 86 -> "YIELD_VALUE"
      [] b = 93 -> "FOR_ITER"
      [] b = 100 -> "LOAD_CONST"
      [] b = 101 -> "LOAD_NAME"
      [] b = 103 -> "BUILD_LIST"
      [] b = 104 -> "BUILD_SET"
      [] b = 110 -> "JUMP_FORWARD"
      [] b = 113 -> "JUMP_ABSOLUTE"
      [] b = 114 -> "POP_JUMP_IF_FALSE"
      [] b = 116 -> "LOAD_GLOBAL"
      [] b = 124 -> "LOAD_FAST"
      [] b = 125 -> "STORE_FAST"
      [] b = 144 -> "EXTENDED_ARG"
      [] b = 145 -> "LIST_APPEND"
      [] b = 146 -> "SET_ADD"
      [] b = 255 -> "<255>"

\* opcode.EXTENDED_ARG of CPython 3.7
EXTENDED_ARG == 144

\* code[i] with i outside the array
ArrayIndexError == "IndexError: array index out of range"

\* code[i] of the array, i from 0
ByteAt(co, i) == co[i + 1]

\* what code_walker yields
Item(addr, op, arg) == [addr |-> addr, op |-> opname(op), arg |-> arg]

\* the inner loop of code_walker with every operand byte replacing the last
code_walker_prefix_narrow(co, i, op, arg, offset) ==
    IF i + offset + 1 >= Len(co) /\ op = EXTENDED_ARG
    THEN [exc |-> ArrayIndexError, item |-> Item(i, op, arg), offset |-> offset]
    ELSE [exc |-> "",
          item |-> Item(i, ByteAt(co, i + offset - 2), ByteAt(co, i + offset - 1)),
          offset |-> offset]

RECURSIVE code_walker_prefix(_, _, _, _, _)

\* code_walker, `while op == EXTENDED_ARG`: the next opcode byte replaces op
\* and the next operand byte is shifted into oparg; reading past the end of
\* the array raises ArrayIndexError
code_walker_prefix(co, i, op, arg, offset) ==
    IF op # EXTENDED_ARG
    THEN [exc |-> "", item |-> Item(i, op, arg), offset |-> offset]
    ELSE IF i + offset + 1 >= Len(co)
    THEN [exc |-> ArrayIndexError, item |-> Item(i, op, arg), offset |-> offset]
    ELSE code_walker_prefix(co, i, ByteAt(co, i + offset),
                            arg * 256 + ByteAt(co, i + offset + 1), offset + 2)

RECURSIVE code_walker_from(_, _, _)

\* `yield i, (op, oparg)` and `i += offset`, after the inner loop ended as p
code_walker_yield(co, items, p) ==
    IF p.exc # "" THEN [exc |-> p.exc, items |-> items]
    ELSE code_walker_from(co, p.item.addr + p.offset, Append(items, p.item))

\* code_walker, `while i < l`, with the items yielded so far
code_walker_from(co, i, items) ==
    IF ~ (i < Len(co)) THEN [exc |-> "", items |-> items]
    ELSE IF i + 1 >= Len(co) THEN [exc |-> ArrayIndexError, items |-> items]
    ELSE code_walker_yield(co, items,
            code_walker_prefix(co, i, ByteAt(co, i), ByteAt(co, i + 1), 2))

\* list(code_walker(co_code))
code_walker(co) == code_walker_from(co, 0, <<>>)

\* Code.__init__: self.instr_map = {addr: i for i, (addr, _) in enumerate(...)}
instr_map(items) ==
    [a \in {items[j].addr : j \in 1..Len(items)} |->
        (CHOOSE j \in 1..Len(items) : items[j].addr = a) - 1]

(***************************************************************************)
(* Calls and for loops: CALL_FUNCTION, GET_ITER and FOR_ITER.              *)
(***************************************************************************)
\* code_map without '<lambda>': the names of the code objects of comprehensions
\* and the subclass of PyComp made for each
CompClass(name) ==
    CASE name = "<listcomp>" -> "PyListComp"
      [] name = "<setcomp>" -> "PySetComp"
      [] name = "<dictcomp>" -> "PyDictComp"
      [] name = "<genexpr>" -> "PyGenExpr"

CompClasses == {"PyListComp", "PySetComp", "PyDictComp", "PyGenExpr"}

\* the argument None of an instruction change_instr wrote
NoArg == -1

\* Address.change_instr(opcode) of code[index]; code[index] is None outside
\* the sequence
change_instr(code_, index, op) ==
    [code_ EXCEPT !.instr_seq[index + 1] = [addr |-> @.addr, op |-> op, arg |-> NoArg]]

\* Code.__init__, the tables of a nested code object (the analysis of a nested
\* code object is not followed: no step displays it)
Code(co) ==
    [code_obj |-> co,
     instr_seq |-> code_walker(co.co_code).items,
     names |-> [i \in 1..Len(co.co_names) |-> PyName(MkId("names", i - 1), co.co_names[i])],
     varnames |-> [i \in 1..Len(co.co_varnames) |->
                     PyName(MkId("varnames", i - 1), co.co_varnames[i])],
     consts |-> co.co_consts, name |-> co.co_name, annotations |-> <<>>]

\* PyComp.__init__ after the assert: the first and the last instruction of the
\* code object become NOP; PyGenExpr.__init__ only keeps the code object
PyComp(cls, id, code_) ==
    [k |-> cls, id |-> id, precedence |-> 16,
     code |-> IF cls = "PyGenExpr" THEN code_
              ELSE change_instr(change_instr(code_, 0, "NOP"),
                                Len(code_.instr_seq) - 1, "NOP")]

\* PyLambda and DefStatement: FunctionDefinition.__init__
FunctionDefinition(cls, id, code_) ==
    [k |-> cls, id |-> id, precedence |-> 1, code |-> code_, name |-> PyNone]

\* MAKE_FUNCTION_NEW from func_maker on: the object made for the code object
\* co, with defaults when argc has bit 1 and kwdefaults when it has bit 2
MAKE_FUNCTION_maker(d, w, id, argc, co, stack) ==
    IF code_walker(co.co_code).exc # "" THEN Raise(d, w, code_walker(co.co_code).exc)
    ELSE IF co.co_name \in {"<listcomp>", "<setcomp>", "<dictcomp>"}
    THEN IF argc % 4 # 0 THEN Raise(d, w, AssertionError)
         ELSE IF code_walker(co.co_code).items = <<>>
         THEN Raise(d, w, "AttributeError: 'NoneType' object has no attribute 'change_instr'")
         ELSE Ok([d EXCEPT !.stack = push(stack, Ref(CompClass(co.co_name), id))],
                 HeapSet(w, id, PyComp(CompClass(co.co_name), id, Code(co))))
    ELSE IF co.co_name = "<genexpr>"
    THEN Ok([d EXCEPT !.stack = push(stack, Ref("PyGenExpr", id))],
            HeapSet(w, id, PyComp("PyGenExpr", id, Code(co))))
    ELSE IF co.co_name = "<lambda>"
    THEN Ok([d EXCEPT !.stack = push(stack, Ref("PyLambda", id))],
            HeapSet(w, id, FunctionDefinition("PyLambda", id, Code(co))))
    ELSE Ok([d EXCEPT !.stack = push(stack, Ref("DefStatement", id))],
            HeapSet(w, id, FunctionDefinition("DefStatement", id, Code(co))))

\* MAKE_FUNCTION_NEW after the pops of the annotations (bit 8), the parameter
\* annotations (4), the keyword defaults (2) and the defaults (1)
MAKE_FUNCTION_args(d, w, id, argc, co, p) ==
    IF ~ p.ok THEN Raise(d, w, EmptyStackPopped)
    ELSE MAKE_FUNCTION_maker(d, w, id, argc, co, p.stack)

\* MAKE_FUNCTION_NEW after the pop of the code object
MAKE_FUNCTION_code(d, w, id, argc, p) ==
    IF ~ p.ok THEN Raise(d, w, EmptyStackPopped)
    ELSE IF p.val.k # "PyConst" THEN Raise(d, w, "AttributeError: object has no attribute 'val'")
    ELSE IF p.val.val.ty # "code"
    THEN Raise(d, w, "AttributeError: object has no attribute 'co_cellvars'")
    ELSE MAKE_FUNCTION_args(d, w, id, argc, p.val.val,
            popn(p.stack, ((argc \div 8) % 2) + ((argc \div 4) % 2) + ((argc \div 2) % 2) + (argc % 2)))

\* MAKE_FUNCTION_NEW after testType = self.stack.pop().val: the qualified name,
\* under which the code object lies
MAKE_FUNCTION_popped(d, w, id, argc, p) ==
    IF ~ p.ok THEN Raise(d, w, EmptyStackPopped)
    ELSE IF p.val.k # "PyConst" THEN Raise(d, w, "AttributeError: object has no attribute 'val'")
    ELSE IF p.val.val.ty = "str" THEN MAKE_FUNCTION_code(d, w, id, argc, pop1(p.stack))
    ELSE MAKE_FUNCTION_code(d, w, id, argc, p)

\* SuiteDecompiler.MAKE_FUNCTION (sys.version_info >= (3, 6))
MAKE_FUNCTION(c, d, w, addr) ==
    MAKE_FUNCTION_popped(d, w, MkId("MAKE_FUNCTION", addr), oparg(c, addr), pop1(d.stack))

\* CALL_FUNCTION_CORE of a comprehension: PyComp.set_iterable, then the
\* comprehension is pushed back
CALL_FUNCTION_comp(d, w, posargs, p) ==
    IF Len(posargs) # 1 THEN Raise(d, w, AssertionError)
    ELSE IF w.heap[p.val.id].code.varnames = <<>>
    THEN Raise(d, w, "IndexError: list assignment index out of range")
    ELSE Ok([d EXCEPT !.stack = push(p.stack, p.val)],
            HeapSet(w, p.val.id, [w.heap[p.val.id] EXCEPT !.code.varnames[1] = posargs[1]]))

\* CALL_FUNCTION after func = self.stack.pop(): CALL_FUNCTION_CORE of a
\* comprehension, or of a function that is no class body or decorator, which
\* pushes the call
CALL_FUNCTION_func(d, w, addr, posargs, p) ==
    IF ~ p.ok THEN Raise(d, w, EmptyStackPopped)
    ELSE IF p.val.k = "Ref" /\ p.val.cls \in CompClasses
    THEN CALL_FUNCTION_comp(d, w, posargs, p)
    ELSE Ok([d EXCEPT !.stack =
                push(p.stack, PyCallFunction(MkId("CALL_FUNCTION", addr), p.val, posargs))],
            w)

\* CALL_FUNCTION after posargs = self.stack.pop(pos_argc)
CALL_FUNCTION_popped(d, w, addr, p) ==
    IF ~ p.ok THEN Raise(d, w, EmptyStackPopped)
    ELSE CALL_FUNCTION_func(d, w, addr, p.vals, pop1(p.stack))

\* SuiteDecompiler.CALL_FUNCTION (sys.version_info >= (3, 6))
CALL_FUNCTION(c, d, w, addr) ==
    CALL_FUNCTION_popped(d, w, addr, popn(d.stack, oparg(c, addr)))

\* SuiteDecompiler.GET_ITER
GET_ITER(c, d, w, addr) == Ok(d, w)

RECURSIVE FOR_ITER_body(_, _, _, _, _, _)

\* FOR_ITER, lines 3865-3867 after d_else.run() returned r
FOR_ITER_else_ran(d, id, end_of_loop, r) ==
    IF r.exc # "" THEN Raise(d, r.w, r.exc)
    ELSE Goto(add_statement(d, Ref("ForStatement", id)),
              HeapSet(r.w, id, [r.w.heap[id] EXCEPT !.else_body = r.d.suite]), end_of_loop)

\* FOR_ITER, lines 3863-3869: the else suite between the POP_BLOCK and
\* end_of_loop
FOR_ITER_else(c, d, w, id, jump_addr, end_of_loop) ==
    IF AddrGetItem(c, jump_addr, 1) = NoneAddr THEN Raise(d, w, NoneNotOrderable)
    ELSE IF AddrLt(AddrGetItem(c, jump_addr, 1), end_of_loop)
    THEN FOR_ITER_else_ran(d, id, end_of_loop,
            run(c, SuiteDecompiler(c, AddrGetItem(c, jump_addr, 1), end_of_loop, NewStack), w))
    ELSE Goto(add_statement(d, Ref("ForStatement", id)), w, jump_addr)

\* FOR_ITER, lines 3857-3862 once loop = addr.seek_back(SETUP_LOOP) is known
FOR_ITER_loop(c, d, w, id, jump_addr, loop) ==
    IF loop = NoneAddr \/ opcode(c, jump_addr) # "POP_BLOCK"
    THEN Goto(add_statement(d, Ref("ForStatement", id)), w, jump_addr)
    ELSE IF d.end_block = NoneAddr THEN Raise(d, w, NoneNotOrderable)
    ELSE FOR_ITER_else(c, d, w, id, jump_addr,
            IF AddrGt(jump(c, loop), d.end_block) THEN d.end_addr ELSE jump(c, loop))

\* FOR_ITER, lines 3853-3856: verify_loop_laststmt returned v for the body
FOR_ITER_verified(c, d, addr, iterable, end_body, v) ==
    IF v.exc # "" THEN Raise(d, v.w, v.exc)
    ELSE IF ~ v.ok THEN FOR_ITER_body(c, d, v.w, addr, iterable, end_body)
    ELSE FOR_ITER_loop(c, d,
            HeapSet(v.w, MkId("FOR_ITER", addr),
                    [v.w.heap[MkId("FOR_ITER", addr)] EXCEPT !.body = v.ss]),
            MkId("FOR_ITER", addr), jump(c, addr), seek_back(c, addr, {"SETUP_LOOP"}, NoneAddr))

\* FOR_ITER, lines 3852-3853 after d_body.run() returned r
FOR_ITER_ran(c, d, addr, iterable, end_body, r) ==
    IF r.exc # "" THEN Raise(d, r.w, r.exc)
    ELSE FOR_ITER_verified(c, d, addr, iterable, end_body,
            verify_loop_laststmt(c, r.d, r.w, r.d.suite, AddrGetItem(c, addr, 1), end_body))

\* FOR_ITER, lines 3848-3852: the body runs with the new ForStatement on its
\* stack, where the stores of the target find it
FOR_ITER_body(c, d, w, addr, iterable, end_body) ==
    FOR_ITER_ran(c, d, addr, iterable, end_body,
        run(c, SuiteDecompiler(c, AddrGetItem(c, addr, 1), end_body,
                               push(NewStack, Ref("ForStatement", MkId("FOR_ITER", addr)))),
            HeapSet(w, MkId("FOR_ITER", addr), ForStatement(iterable))))

\* FOR_ITER after iterable = self.stack.pop()
FOR_ITER_popped(c, d, w, addr, p) ==
    IF ~ p.ok THEN Raise(d, w, EmptyStackPopped)
    ELSE IF jump(c, addr) = NoneAddr THEN Raise(Popped(d, p), w, AttributeErrorNone)
    ELSE FOR_ITER_body(c, Popped(d, p), w, addr, p.val,
            IF opcode(c, jump(c, addr)) # "POP_BLOCK" THEN AddrGetItem(c, jump(c, addr), -1)
            ELSE jump(c, addr))

\* SuiteDecompiler.FOR_ITER; after a RETURN_VALUE the loop is dead code
FOR_ITER(c, d, w, addr) ==
    IF opcode(c, AddrGetItem(c, addr, -1)) = "RETURN_VALUE" THEN Goto(d, w, END_NOW)
    ELSE FOR_ITER_popped(c, d, w, addr, pop1(d.stack))

POP_BLOCK(c, d, w, addr) == Ok(d, w)

POP_EXCEPT(c, d, w, addr) == Goto(d, w, END_NOW)

END_FINALLY(c, d, w, addr) == Goto(d, w, END_NOW)

JUMP_FORWARD(c, d, w, addr) == Goto(d, w, jump(c, addr))

WITH_CLEANUP_START(c, d, w, addr) == Ok(d, w)

\* WITH_CLEANUP_FINISH returns addr.jump(), which is None for this opcode
WITH_CLEANUP_FINISH(c, d, w, addr) == Goto(d, w, jump(c, addr))

\* WithStatement.__init__; suite is set by SETUP_WITH after the body ran
WithStatement(at, with_expr) ==
    [k |-> "WithStatement", at |-> at, with_expr |-> with_expr, with_name |-> PyNone,
     is_async |-> FALSE, suite |-> PyNone]

\* SETUP_WITH after d_with.run() returned r
SETUP_WITH_ran(c, d1, addr, id, r) ==
    IF r.exc # "" THEN Raise(d1, r.w, r.exc)
    ELSE IF opcode(c, jump(c, addr)) # "WITH_CLEANUP_START"
              \/ opcode(c, AddrGetItem(c, jump(c, addr), 1)) # "WITH_CLEANUP_FINISH"
    THEN Raise(d1, r.w, AssertionError)
    ELSE Goto(add_statement(d1, Ref("WithStatement", id)),
              HeapSet(r.w, id, [r.w.heap[id] EXCEPT !.suite = r.d.suite]),
              AddrGetItem(c, jump(c, addr), 3))

\* SETUP_WITH after with_stmt = WithStatement(self.stack.pop())
SETUP_WITH_popped(c, d, w, addr, id, p) ==
    IF ~ p.ok THEN Raise(d, w, EmptyStackPopped)
    ELSE SETUP_WITH_ran(c, Popped(d, p), addr, id,
            run(c, SuiteDecompiler(c, AddrGetItem(c, addr, 1), jump(c, addr),
                                   push(NewStack, Ref("WithStatement", id))),
                HeapSet(w, id, WithStatement(addr, p.val))))

\* SETUP_WITH: the body runs in a decompiler of its own whose stack holds the
\* WithStatement, so that the store or POP_TOP after SETUP_WITH reaches it
SETUP_WITH(c, d, w, addr) ==
    SETUP_WITH_popped(c, d, w, addr, MkId("SETUP_WITH", addr), pop1(d.stack))

\* method = getattr(self, opname[opcode]); method(*args): an opcode without a
\* method of that name raises AttributeError
Handle(c, d, w, addr) ==
    LET op == opcode(c, addr)
    IN CASE op = "LOAD_NAME" -> LOAD_NAME(c, d, w, addr)
         [] op = "LOAD_FAST" -> LOAD_FAST(c, d, w, addr)
         [] op = "LOAD_GLOBAL" -> LOAD_GLOBAL(c, d, w, addr)
         [] op = "LOAD_CONST" -> LOAD_CONST(c, d, w, addr)
         [] op = "STORE_NAME" -> STORE_NAME(c, d, w, addr)
         [] op = "STORE_FAST" -> STORE_FAST(c, d, w, addr)
         [] op = "STORE_GLOBAL" -> STORE_GLOBAL(c, d, w, addr)
         [] op = "DELETE_GLOBAL" -> DELETE_GLOBAL(c, d, w, addr)
         [] op = "LOAD_DEREF" -> LOAD_DEREF(c, d, w, addr)
         [] op = "STORE_DEREF" -> STORE_DEREF(c, d, w, addr)
         [] op = "DELETE_DEREF" -> DELETE_DEREF(c, d, w, addr)
         [] op = "DELETE_NAME" -> DELETE_NAME(c, d, w, addr)
         [] op = "DELETE_FAST" -> DELETE_FAST(c, d, w, addr)
         [] op = "POP_TOP" -> POP_TOP(c, d, w, addr)
         [] op = "DUP_TOP" -> DUP_TOP(c, d, w, addr)
         [] op = "BUILD_TUPLE" -> BUILD_TUPLE(c, d, w, addr)
         [] op = "UNPACK_SEQUENCE" -> UNPACK_SEQUENCE(c, d, w, addr)
         [] op \in BinaryOpcodes ->
               BINARY(c, d, w, addr, CHOOSE b \in BinaryOps : BinaryOpcode(b) = op)
         [] op = "UNARY_NOT" -> UNARY_NOT(c, d, w, addr)
         [] op \in UnaryOpcodes \ {"UNARY_NOT"} ->
               UNARY(c, d, w, addr, CHOOSE u \in UnaryOps : UnaryOpcode(u) = op)
         [] op = "RAISE_VARARGS" -> RAISE_VARARGS(c, d, w, addr)
         [] op = "RETURN_VALUE" -> RETURN_VALUE(c, d, w, addr)
         [] op = "NOP" -> NOP(c, d, w, addr)
         [] op = "POP_BLOCK" -> POP_BLOCK(c, d, w, addr)
         [] op = "POP_EXCEPT" -> POP_EXCEPT(c, d, w, addr)
         [] op = "END_FINALLY" -> END_FINALLY(c, d, w, addr)
         [] op = "JUMP_FORWARD" -> JUMP_FORWARD(c, d, w, addr)
         [] op = "WITH_CLEANUP_START" -> WITH_CLEANUP_START(c, d, w, addr)
         [] op = "WITH_CLEANUP_FINISH" -> WITH_CLEANUP_FINISH(c, d, w, addr)
         [] op = "SETUP_WITH" -> SETUP_WITH(c, d, w, addr)
         [] op = "POP_JUMP_IF_FALSE" -> POP_JUMP_IF_FALSE(c, d, w, addr)
         [] op = "POP_JUMP_IF_TRUE" -> POP_JUMP_IF_TRUE(c, d, w, addr)
         [] op = "COMPARE_OP" -> COMPARE_OP(c, d, w, addr)
         [] op = "ROT_TWO" -> ROT_TWO(c, d, w, addr)
         [] op = "ROT_THREE" -> ROT_THREE(c, d, w, addr)
         [] op = "JUMP_IF_FALSE_OR_POP" -> JUMP_IF_FALSE_OR_POP(c, d, w, addr)
         [] op = "JUMP_IF_TRUE_OR_POP" -> JUMP_IF_TRUE_OR_POP(c, d, w, addr)
         [] op = "SETUP_FINALLY" -> SETUP_FINALLY(c, d, w, addr)
         [] op = "SETUP_EXCEPT" -> SETUP_EXCEPT(c, d, w, addr)
         [] op = "SETUP_LOOP" -> SETUP_LOOP(c, d, w, addr)
         [] op = "BREAK_LOOP" -> BREAK_LOOP(c, d, w, addr)
         [] op = "CONTINUE_LOOP" -> CONTINUE_LOOP(c, d, w, addr)
         [] op = "JUMP_ABSOLUTE" -> JUMP_ABSOLUTE(c, d, w, addr)
         [] op = "CALL_FUNCTION" -> CALL_FUNCTION(c, d, w, addr)
         [] op = "MAKE_FUNCTION" -> MAKE_FUNCTION(c, d, w, addr)
         [] op = "GET_ITER" -> GET_ITER(c, d, w, addr)
         [] op = "FOR_ITER" -> FOR_ITER(c, d, w, addr)
         [] OTHER -> Raise(d, w, "AttributeError: 'SuiteDecompiler' object has no attribute")

\* the rest of a pass once new_addr is known: addr = new_addr, then the break of
\* expression_in_result, which reads addr.opcode even when addr is None
Advance(c, r, new_addr) ==
    IF r.d.expression_in_result /\ new_addr = NoneAddr
    THEN Pass(r.d, r.w, new_addr, "AttributeError: 'NoneType' object has no attribute 'opcode'", TRUE)
    ELSE IF r.d.expression_in_result /\ opcode(c, new_addr) = "RETURN_VALUE"
    THEN Pass(r.d, r.w, new_addr, "", TRUE)
    ELSE Pass(r.d, r.w, new_addr, "", FALSE)

\* the rest of a pass once the handler returned r (or raised r.exc)
AfterHandler(c, addr, r) ==
    IF r.exc # "" THEN Pass(r.d, r.w, addr, r.exc, TRUE)
    ELSE IF r.nxt = END_NOW THEN Pass(r.d, r.w, r.d.end_addr, "", TRUE)
    ELSE IF (r.d.scan_for_else \/ r.d.find_end_finally) /\ opcode(c, addr) = "RETURN_VALUE"
    THEN Pass(r.d, r.w, addr, "", TRUE)
    ELSE Advance(c, r, IF r.nxt = NoneAddr THEN AddrGetItem(c, addr, 1) ELSE r.nxt)

\* a break of scan_for_else that tests the line map for JUMP_FORWARD as for
\* JUMP_ABSOLUTE
scan_for_else_break_aligned(c, addr) ==
    opcode(c, addr) \in {"JUMP_ABSOLUTE", "JUMP_FORWARD"} /\ ~ InLinemap(c, addr)

\* the breaks of scan_for_else before the dispatch: a JUMP_ABSOLUTE whose
\* address is not in the line map, or a JUMP_FORWARD
scan_for_else_break(c, addr) ==
    \/ opcode(c, addr) = "JUMP_ABSOLUTE" /\ ~ InLinemap(c, addr)
    \/ opcode(c, addr) = "JUMP_FORWARD"

\* one pass through the body of the while loop of run, entered at addr
Iterate(c, d, w, addr) ==
    IF d.scan_for_else /\ scan_for_else_break(c, addr)
    THEN Pass(d, w, addr, "", TRUE)
    ELSE IF ~ d.scan_for_else /\ d.find_end_finally /\ opcode(c, addr) = "END_FINALLY"
    THEN Pass(d, w, addr, "", TRUE)
    ELSE AfterHandler(c, addr, Handle(c, d, w, addr))

\* the condition of the while loop of run
Running(d, addr) == addr # NoneAddr /\ AddrLt(addr, d.end_addr)

RECURSIVE RunLoop(_, _, _, _)

\* the loop of run after one pass
RunLoopNext(c, it) == IF it.brk THEN it ELSE RunLoop(c, it.d, it.w, it.addr)

\* the while loop of run, at addr
RunLoop(c, d, w, addr) ==
    IF ~ Running(d, addr) THEN Pass(d, w, addr, "", TRUE)
    ELSE RunLoopNext(c, Iterate(c, d, w, addr))

\* SuiteDecompiler.run of a decompiler a handler made; a decompiler made from
\* None as start_addr fails in __init__ (start_addr.code)
run(c, d, w) ==
    IF d.start_addr = NoneAddr
    THEN Pass(d, w, NoneAddr, "AttributeError: 'NoneType' object has no attribute 'code'", TRUE)
    ELSE RunLoop(c, d, w, d.start_addr)

(***************************************************************************)
(* Code.__init__ and Code.get_suite.                                       *)
(***************************************************************************)
\* the mutable attributes of Code after the assignments of __init__, and the heap
NewWorld ==
    [globals |-> <<>>, nonlocals |-> <<>>, loops |-> <<>>, else_jumps |-> {},
     start_chained_jumps |-> {}, inner_chained_jumps |-> {}, end_chained_jumps |-> {},
     statement_jumps |-> <<>>, ternaryop_jumps |-> {}, qcjumps |-> <<>>,
     heap |-> <<>>, exc |-> "", starta |-> UNBOUND]

\* Code.implicit_continuation_lines raises TypeError when the stream starts with
\* STORE_GLOBAL or STORE_NAME: addr[-1] is None and is unpacked
implicit_continuation_raises(c) == opcode(c, 0) \in {"STORE_GLOBAL", "STORE_NAME"}

\* the statement get_suite puts first when names were declared global
GlobalStatement(w) ==
    SimpleStatement(NoneAddr,
        <<"global">> \o Join([i \in 1..Len(w.globals) |-> Str(w.globals[i])], <<",">>))

\* the statement get_suite puts next when names were declared nonlocal
NonlocalStatement(w) ==
    SimpleStatement(NoneAddr,
        <<"nonlocal">> \o Join([i \in 1..Len(w.nonlocals) |-> Str(w.nonlocals[i])], <<",">>))

\* the opcodes get_suite takes for a use of a name of derefnames
DerefOps == {"LOAD_DEREF", "STORE_DEREF", "DELETE_DEREF", "LOAD_CLOSURE"}

\* get_suite: unused_deref_names after the loop over the instructions
unused_deref_names(c) ==
    SelectSeq(c.co_cellvars \o c.co_freevars,
              LAMBDA n : ~ \E a \in 0..(NumInstr(c) - 1) :
                             /\ opcode(c, a) \in DerefOps
                             /\ (c.co_cellvars \o c.co_freevars)[oparg(c, a) + 1] = n)

\* t.startswith("__"), for the names of the modelled code objects
StartsWithDunder(t) == t \in {"__class__"}

InSeq(x, seq) == \E i \in 1..Len(seq) : seq[i] = x

\* get_suite: the statements inserted for the names the parent sent (Code.annotations,
\* None being the empty sequence: DefStatement never stores an empty list) that
\* no instruction uses
InsertedStatements(c) ==
    IF c.varnames = <<>> THEN <<>>
    ELSE [i \in 1..Len(SelectSeq(c.annotations,
                                  LAMBDA t : /\ ~ StartsWithDunder(t)
                                             /\ InSeq(t, unused_deref_names(c))
                                             /\ t # "self")) |->
            SimpleStatement(NoneAddr,
                <<c.varnames[1], ":",
                  SelectSeq(c.annotations,
                            LAMBDA t : /\ ~ StartsWithDunder(t)
                                       /\ InSeq(t, unused_deref_names(c))
                                       /\ t # "self")[i],
                  "#Inserted by decompiler to adjust code flags. Remove this line.">>)]

\* Code.get_suite after dec.run(): the declarations, then the statements
WithDeclarations(c, w, suite) ==
    IF w.globals # <<>> \/ w.nonlocals # <<>> \/ c.annotations # <<>>
    THEN Suite((IF w.globals # <<>> THEN <<GlobalStatement(w)>> ELSE <<>>)
                 \o (IF w.nonlocals # <<>> THEN <<NonlocalStatement(w)>> ELSE <<>>)
                 \o InsertedStatements(c)
                 \o suite.statements)
    ELSE suite

(***************************************************************************)
(* display: the rendering of statements into indented lines.               *)
(***************************************************************************)
\* IndentString.indent at one level: the line, its level kept apart
Line(lvl, text) == [lvl |-> lvl, text |-> text]

\* the object a reference stands for
Deref(h, s) == IF s.k = "Ref" THEN h[s.id] ELSE s

RECURSIVE display(_, _, _)
RECURSIVE SuiteDisplayFrom(_, _, _, _)
RECURSIVE IfDisplay(_, _, _, _)
RECURSIVE WithDisplay(_, _, _, _)

\* the loop of Suite.display over the statements from the i-th on
SuiteDisplayFrom(h, stmts, i, lvl) ==
    IF i > Len(stmts) THEN <<>>
    ELSE display(h, stmts[i], lvl) \o SuiteDisplayFrom(h, stmts, i + 1, lvl)

\* a Suite.display that writes nothing for an empty suite
SuiteDisplay_blank(h, s, lvl) ==
    IF s.k # "Suite" THEN display(h, s, lvl)
    ELSE SuiteDisplayFrom(h, s.statements, 1, lvl)

\* Suite.display: the statements, or the single line pass for an empty suite;
\* a body that is one statement instead of a Suite displays that statement
SuiteDisplay(h, s, lvl) ==
    IF s.k # "Suite" THEN display(h, s, lvl)
    ELSE IF s.statements # <<>> THEN SuiteDisplayFrom(h, s.statements, 1, lvl)
    ELSE <<Line(lvl, <<"pass">>)>>

\* IfStatement.display
IfDisplay(h, s, lvl, is_elif) ==
    <<Line(lvl, <<IF is_elif THEN "elif" ELSE "if">> \o Fmt(s.cond) \o <<":">>)>>
      \o SuiteDisplay(h, s.true_suite, lvl + 1)
      \o (IF ~ Truthy(s.false_suite) THEN <<>>
          ELSE IF Len(s.false_suite.statements) = 1
                    /\ Deref(h, s.false_suite.statements[1]).k = "IfStatement"
          THEN IfDisplay(h, Deref(h, s.false_suite.statements[1]), lvl, TRUE)
          ELSE <<Line(lvl, <<"else:">>)>> \o SuiteDisplay(h, s.false_suite, lvl + 1))

\* the argument WithStatement.display appends to args
WithArg(s) ==
    IF s.with_name.k = "None" THEN Fmt(s.with_expr)
    ELSE Fmt(s.with_expr) \o <<"as">> \o Fmt(s.with_name)

\* a display that writes every with statement under a header of its own
WithDisplay_unflattened(h, s, lvl, args) ==
    <<Line(lvl, (IF s.is_async THEN <<"async">> ELSE <<>>)
                  \o <<"with">> \o WithArg(s) \o <<":">>)>>
      \o SuiteDisplay(h, s.suite, lvl + 1)

\* WithStatement.display: a suite that is exactly one WithStatement joins this
\* header
WithDisplay(h, s, lvl, args) ==
    LET args1 == Append(args, WithArg(s))
    IN IF Len(s.suite.statements) = 1 /\ Deref(h, s.suite.statements[1]).k = "WithStatement"
       THEN WithDisplay(h, Deref(h, s.suite.statements[1]), lvl, args1)
       ELSE <<Line(lvl, (IF s.is_async THEN <<"async">> ELSE <<>>)
                          \o <<"with">> \o Join(args1, <<",">>) \o <<":">>)>>
              \o SuiteDisplay(h, s.suite, lvl + 1)

RECURSIVE ExceptDisplayFrom(_, _, _, _)
\* the loop of TryStatement.display over the except clauses
ExceptDisplayFrom(h, clauses, i, lvl) ==
    IF i > Len(clauses) THEN <<>>
    ELSE LET cl == clauses[i]
         IN <<Line(lvl, IF cl.type.k = "None" THEN <<"except:">>
                        ELSE IF cl.name.k = "None" THEN <<"except">> \o Fmt(cl.type) \o <<":">>
                        ELSE <<"except">> \o Fmt(cl.type) \o <<"as">> \o Fmt(cl.name) \o <<":">>)>>
              \o SuiteDisplay(h, cl.suite, lvl + 1)
              \o ExceptDisplayFrom(h, clauses, i + 1, lvl)

\* TryStatement.display
TryDisplay(h, s, lvl) ==
    <<Line(lvl, <<"try:">>)>> \o SuiteDisplay(h, s.try_suite, lvl + 1)
      \o ExceptDisplayFrom(h, s.except_clauses, 1, lvl)
      \o (IF Truthy(s.else_suite)
          THEN <<Line(lvl, <<"else:">>)>> \o SuiteDisplay(h, s.else_suite, lvl + 1)
          ELSE <<>>)

\* FinallyStatement.display: a try suite that is exactly one TryStatement is
\* displayed as that statement, any other is wrapped in a new TryStatement
FinallyDisplay(h, s, lvl) ==
    (IF Len(s.try_suite.statements) = 1
          /\ Deref(h, s.try_suite.statements[1]).k = "TryStatement"
     THEN TryDisplay(h, Deref(h, s.try_suite.statements[1]), lvl)
     ELSE TryDisplay(h, TryStatement(s.try_suite), lvl))
      \o <<Line(lvl, <<"finally:">>)>> \o SuiteDisplay(h, s.finally_suite, lvl + 1)

\* the else part ForStatement.display and WhileStatement.display share
LoopElseDisplay(h, s, lvl) ==
    IF Truthy(s.else_body)
    THEN <<Line(lvl, <<"else:">>)>> \o SuiteDisplay(h, s.else_body, lvl + 1)
    ELSE <<>>

\* the display method of each statement class
display(h, stmt, lvl) ==
    LET s == Deref(h, stmt)
    IN CASE s.k = "SimpleStatement" -> <<Line(lvl, s.val)>>
         [] s.k = "AssignStatement" ->
               <<Line(lvl, Join([i \in 1..Len(s.chain) |-> Fmt(s.chain[i])], <<"=">>))>>
         [] s.k = "DocString" -> <<Line(lvl, <<s.string.repr>>)>>
         [] s.k = "IfStatement" -> IfDisplay(h, s, lvl, FALSE)
         [] s.k = "WhileStatement" ->
               <<Line(lvl, <<"while">> \o Fmt(s.cond) \o <<":">>)>>
                 \o SuiteDisplay(h, s.body, lvl + 1) \o LoopElseDisplay(h, s, lvl)
         [] s.k = "ForStatement" ->
               <<Line(lvl, (IF s.is_async THEN <<"async">> ELSE <<>>) \o <<"for">>
                             \o Fmt(s.dest) \o <<"in">> \o Fmt(s.iterable) \o <<":">>)>>
                 \o SuiteDisplay(h, s.body, lvl + 1) \o LoopElseDisplay(h, s, lvl)
         [] s.k = "WithStatement" -> WithDisplay(h, s, lvl, <<>>)
         [] s.k = "TryStatement" -> TryDisplay(h, s, lvl)
         [] s.k = "FinallyStatement" -> FinallyDisplay(h, s, lvl)

(***************************************************************************)
(* The state machine.  pc is the position in decompiling one code object:  *)
(*   "raw"    the code object is given as bytes (co_code)                   *)
(*   "init"   the code object is given, decoded                             *)
(*   "ready"  Code.__init__ returned                                        *)
(*   "run"    get_suite made the decompiler; run's loop is at cursor        *)
(*   "ran"    run's loop was left by a break                                *)
(*   "done"   get_suite returned the suite (out.suite)                      *)
(*   "shown"  the suite was displayed (out.lines)                           *)
(*   "raised" an exception left Code.__init__ or get_suite (out.exc)        *)
(***************************************************************************)
\* the value of dec before get_suite makes the decompiler
NoDec == SuiteDecompiler([instr_seq |-> <<>>], NoneAddr, NoneAddr, NewStack)

\* passes counts the passes of the loop of run at the top level (bookkeeping);
\* issues is what compare_codeobjs returned for the recompiled text
NoOut == [suite |-> Suite(<<>>), lines |-> <<>>, exc |-> "", passes |-> 0, issues |-> <<>>]

\* the flags of a plain function or module
PlainFlags == [generator |-> FALSE, iterable_coroutine |-> FALSE]

\* the state in which the decompilation of code object c starts
Start(c) ==
    /\ code = c
    /\ pc = "init"
    /\ cursor = NoneAddr
    /\ dec = NoDec
    /\ world = NewWorld
    /\ out = NoOut

\* Code.__init__: find_else, the line map, find_jumps, the flags,
\* implicit_continuation_lines
Code__init__ ==
    /\ pc = "init"
    /\ world' = Analysed(code, world)
    /\ IF world'.exc # ""
       THEN /\ pc' = "raised"
            /\ out' = [out EXCEPT !.exc = world'.exc]
       ELSE IF implicit_continuation_raises(code)
       THEN /\ pc' = "raised"
            /\ out' = [out EXCEPT !.exc = "TypeError: cannot unpack non-iterable NoneType object"]
       ELSE /\ pc' = "ready"
            /\ out' = out
    /\ UNCHANGED <<code, cursor, dec>>

\* Code.get_suite up to dec.run(): dec = SuiteDecompiler(self[0])
get_suite ==
    /\ pc = "ready"
    /\ dec' = SuiteDecompiler(code, 0, NoneAddr, NewStack)
    /\ cursor' = 0
    /\ pc' = "run"
    /\ UNCHANGED <<code, world, out>>

\* the state after a pass `it` of the top-level run loop
Commit(it) ==
    /\ dec' = it.d
    /\ world' = it.w
    /\ cursor' = it.addr
    /\ pc' = IF it.exc # "" THEN "raised" ELSE IF it.brk THEN "ran" ELSE "run"
    /\ out' = [out EXCEPT !.exc = it.exc, !.passes = @ + 1]

\* one pass of the top-level run loop over an instruction whose opcode is in ops
RunStep(ops) ==
    /\ pc = "run"
    /\ Running(dec, cursor)
    /\ opcode(code, cursor) \in ops
    /\ Commit(Iterate(code, dec, world, cursor))
    /\ UNCHANGED code

Run_LOAD_NAME == RunStep({"LOAD_NAME"})

Run_LOAD_CONST == RunStep({"LOAD_CONST"})

Run_STORE_NAME == RunStep({"STORE_NAME"})

Run_DELETE_NAME == RunStep({"DELETE_NAME"})

Run_DUP_TOP == RunStep({"DUP_TOP"})

Run_POP_TOP == RunStep({"POP_TOP"})

Run_RETURN_VALUE == RunStep({"RETURN_VALUE"})

Run_RAISE_VARARGS == RunStep({"RAISE_VARARGS"})

\* an opcode byte that names no method of SuiteDecompiler
NoHandlerOps == {"<0>"}

Run_NoHandler == RunStep(NoHandlerOps)

Run_SETUP_WITH == RunStep({"SETUP_WITH"})

Run_POP_JUMP_IF_FALSE == RunStep({"POP_JUMP_IF_FALSE"})

Run_POP_JUMP_IF_TRUE == RunStep({"POP_JUMP_IF_TRUE"})

Run_UNARY_NOT == RunStep({"UNARY_NOT"})

Run_JUMP_FORWARD == RunStep({"JUMP_FORWARD"})

Run_COMPARE_OP == RunStep({"COMPARE_OP"})

Run_ROT_TWO == RunStep({"ROT_TWO"})

Run_ROT_THREE == RunStep({"ROT_THREE"})

Run_JUMP_IF_FALSE_OR_POP == RunStep({"JUMP_IF_FALSE_OR_POP"})

Run_JUMP_IF_TRUE_OR_POP == RunStep({"JUMP_IF_TRUE_OR_POP"})

Run_SETUP_FINALLY == RunStep({"SETUP_FINALLY"})

Run_SETUP_EXCEPT == RunStep({"SETUP_EXCEPT"})

Run_SETUP_LOOP == RunStep({"SETUP_LOOP"})

Run_POP_BLOCK == RunStep({"POP_BLOCK"})

Run_LOAD_FAST == RunStep({"LOAD_FAST"})

Run_LOAD_GLOBAL == RunStep({"LOAD_GLOBAL"})

Run_CALL_FUNCTION == RunStep({"CALL_FUNCTION"})

Run_GET_ITER == RunStep({"GET_ITER"})

Run_FOR_ITER == RunStep({"FOR_ITER"})

\* Code.get_suite after dec.run() returned: the declarations and the suite
get_suite_return ==
    /\ pc = "ran" \/ (pc = "run" /\ ~ Running(dec, cursor))
    /\ out' = [out EXCEPT !.suite = WithDeclarations(code, world, dec.suite)]
    /\ pc' = "done"
    /\ UNCHANGED <<code, cursor, dec, world>>

\* str(suite): Suite.display into an IndentString
Display ==
    /\ pc = "done"
    /\ out' = [out EXCEPT !.lines = SuiteDisplay(world.heap, out.suite, 0)]
    /\ pc' = "shown"
    /\ UNCHANGED <<code, cursor, dec, world>>

\* FunctionDefinition.getparams without annotations (decompile passes no
\* paramobjs): the positional parameters, the last ones with their defaults,
\* then *name when the code object has the VARARGS flag, the keyword-only
\* parameters after it or after a bare *, and **name for VARKEYWORDS
getparams(c) ==
    [i \in 1..c.co_argcount |->
        IF i > c.co_argcount - Len(c.defaults)
        THEN <<c.varnames[i], "=", c.defaults[i - (c.co_argcount - Len(c.defaults))]>>
        ELSE <<c.varnames[i]>>]
      \o (IF c.co_varargs THEN <<(<<"*", c.varnames[c.co_argcount + c.co_kwonlyargcount + 1]>>)>>
          ELSE IF c.co_kwonlyargcount > 0 THEN <<(<<"*">>)>> ELSE <<>>)
      \o [i \in 1..c.co_kwonlyargcount |-> <<c.varnames[c.co_argcount + i]>>]
      \o (IF c.co_varkeywords
          THEN <<(<<"**", c.varnames[c.co_argcount + c.co_kwonlyargcount
                                       + (IF c.co_varargs THEN 2 ELSE 1)]>>)>>
          ELSE <<>>)

\* DefStatement.display_undecorated: the header, the docstring when the first
\* constant is not None, and the suite of the code object one level in
display_undecorated(c, h, suite) ==
    <<Line(0, <<"def", c.name, "(">> \o Join(getparams(c), <<",">>) \o <<")", ":">>)>>
      \o (IF c.consts[1].ty # "NoneType" THEN <<Line(1, <<c.consts[1].repr>>)>> ELSE <<>>)
      \o SuiteDisplay(h, suite, 1)

\* str(decompile(f)) of a function f: DecorableStatement.display of the
\* DefStatement into an IndentString, between the two lines of sep()
DisplayDef ==
    /\ pc = "done"
    /\ out' = [out EXCEPT !.lines = <<Line(0, <<>>)>>
                                      \o display_undecorated(code, world.heap, out.suite)
                                      \o <<Line(0, <<>>)>>]
    /\ pc' = "shown"
    /\ UNCHANGED <<code, cursor, dec, world>>

(***************************************************************************)
(* Instruction streams.  A block is a sequence of instructions as the      *)
(* CPython 3.7 compiler emits them for a statement, each marked with ln    *)
(* when it is the first instruction of a source line (co_lnotab).          *)
(***************************************************************************)
\* one element of Code.instr_seq, as code_walker yields it
Instr(op, arg) == [op |-> op, arg |-> arg]

\* an instruction of a block; newline: it starts a source line
B(newline, op, arg) == [op |-> op, arg |-> arg, ln |-> newline]

I(op, arg) == B(FALSE, op, arg)

L(op, arg) == B(TRUE, op, arg)

\* the code object of a module whose body compiles to block: the body, then
\* LOAD_CONST None and RETURN_VALUE; linemap as Code.__init__ reads it from
\* co_lnotab (offset 0 is always in it)
ModuleCode(block, names, none) ==
    [instr_seq |-> [i \in 1..(Len(block) + 2) |->
                      IF i <= Len(block) THEN Instr(block[i].op, block[i].arg)
                      ELSE IF i = Len(block) + 1 THEN Instr("LOAD_CONST", none)
                      ELSE Instr("RETURN_VALUE", 0)],
     linemap |-> {0} \cup {2 * (i - 1) : i \in {j \in 1..Len(block) : block[j].ln}},
     name |-> "<module>", flags |-> PlainFlags, names |-> names, varnames |-> <<>>,
     consts |-> <<ConstVal("NoneType", "None")>>, parent_names |-> {},
     co_cellvars |-> <<>>, co_freevars |-> <<>>, annotations |-> <<>>]

(***************************************************************************)
(* Straight-line code: every instruction stream of at most MaxLen          *)
(* instructions over StraightAlphabet.                                     *)
(***************************************************************************)

StraightNames == <<"a", "x">>

StraightConsts == <<ConstVal("NoneType", "None")>>

StraightAlphabet ==
    {Instr("LOAD_NAME", 0), Instr("LOAD_CONST", 0), Instr("STORE_NAME", 1),
     Instr("DELETE_NAME", 1), Instr("DUP_TOP", 0), Instr("POP_TOP", 0),
     Instr("RETURN_VALUE", 0), Instr("RAISE_VARARGS", 3), Instr("<0>", 0)}

StraightCode(seq) ==
    [instr_seq |-> seq, linemap |-> {0}, name |-> "<module>", flags |-> PlainFlags,
     names |-> StraightNames, varnames |-> <<>>, consts |-> StraightConsts,
     parent_names |-> {}, co_cellvars |-> <<>>, co_freevars |-> <<>>,
     annotations |-> <<>>]

InitStraight ==
    \E n \in 1..MaxLen : \E seq \in [1..n -> StraightAlphabet] : Start(StraightCode(seq))

NextStraight ==
    \/ Code__init__
    \/ get_suite
    \/ Run_LOAD_NAME
    \/ Run_LOAD_CONST
    \/ Run_STORE_NAME
    \/ Run_DELETE_NAME
    \/ Run_DUP_TOP
    \/ Run_POP_TOP
    \/ Run_RETURN_VALUE
    \/ Run_RAISE_VARARGS
    \/ Run_NoHandler
    \/ get_suite_return
    \/ Display

SpecStraight == InitStraight /\ [][NextStraight]_vars

(***************************************************************************)
(* Straight-line code: the statements of the suite (C7).                   *)
(***************************************************************************)
\* the number of instructions of c whose opcode is in stmt_opcodes
StmtInstrCount(c) ==
    Cardinality({i \in 1..Len(c.instr_seq) : c.instr_seq[i].op \in stmt_opcodes})

\* the statements carry strictly increasing addresses
AddressOrder(stmts) ==
    \A i \in 1..Len(stmts) : \A j \in 1..Len(stmts) : i < j => stmts[i].at < stmts[j].at

\* the value on top of the operand stack is also held further down
TopStillOnStack(s) == s._stack # <<>> /\ get_count(s, s._stack[Len(s._stack)]) > 1

\* the instruction at the cursor appends nothing when it is handled: it is not
\* a statement instruction, or a store whose value stays on the stack, or the
\* return of the constant None that ends the stream
AppendsNothing ==
    \/ opcode(code, cursor) \notin stmt_opcodes \cup {"POP_TOP"}
    \/ opcode(code, cursor) \in unpack_stmt_opcodes /\ TopStillOnStack(dec.stack)
    \/ /\ opcode(code, cursor) = "RETURN_VALUE"
       /\ dec.stack._stack # <<>>
       /\ IsConstNone(dec.stack._stack[Len(dec.stack._stack)])
       /\ AddrGetItem(code, cursor, 1) = NoneAddr

\* one pass of run that returned: the cursor moved forward, and the suite grew
\* by one statement stamped with the handled address unless AppendsNothing
StraightPass ==
    (pc = "run" /\ pc' \in {"run", "ran"}) =>
        /\ cursor' = NoneAddr \/ cursor' > cursor
        /\ IF AppendsNothing
           THEN dec'.suite.statements = dec.suite.statements
           ELSE /\ Len(dec'.suite.statements) = Len(dec.suite.statements) + 1
                /\ SubSeq(dec'.suite.statements, 1, Len(dec.suite.statements))
                      = dec.suite.statements
                /\ dec'.suite.statements[Len(dec'.suite.statements)].at = cursor

\* every statement of the suite stands at a statement instruction or a POP_TOP
StatementsAtStmtInstr ==
    \A i \in 1..Len(dec.suite.statements) :
        opcode(code, dec.suite.statements[i].at) \in stmt_opcodes \cup {"POP_TOP"}

UnmatchedShapeErrors ==
    {"AttributeError: 'SuiteDecompiler' object has no attribute",
     "NameError: name 'Unknown' is not defined"}

\* C9 as stated: no instruction that no handler accepts makes run raise
C9_RunNeverAborts == ~ (pc = "raised" /\ out.exc \in UnmatchedShapeErrors)

\* C10 as stated: a pop of the empty operand stack never leaves run as an
\* exception
C10_UnderflowNeverPropagates == ~ (pc = "raised" /\ out.exc = EmptyStackPopped)

(***************************************************************************)
(* with statements: modules whose body is one with statement of 1..MaxWith *)
(* context managers nested in one another.                                 *)
(***************************************************************************)
\* names of the with modules: managers a b c d, targets x y z u, body names s t
WithNames == <<"a", "b", "c", "d", "x", "y", "z", "u", "s", "t">>

\* the suites of the innermost with: pass; del s; s, then s = t
WithBodies ==
    {<<>>,
     <<L("DELETE_NAME", 8)>>,
     <<L("LOAD_NAME", 8), I("POP_TOP", 0), L("LOAD_NAME", 9), I("STORE_NAME", 8)>>}

\* compiler_with for the i-th manager around the block inner: the manager,
\* SETUP_WITH to the cleanup, the store of the target or POP_TOP, the body,
\* POP_BLOCK, LOAD_CONST None, and the cleanup
WithItem(i, isnamed, newline, inner) ==
    <<B(newline, "LOAD_NAME", i - 1), I("SETUP_WITH", 2 * (Len(inner) + 3)),
      IF isnamed THEN I("STORE_NAME", 3 + i) ELSE I("POP_TOP", 0)>>
      \o inner
      \o <<B(inner = <<>>, "POP_BLOCK", 0), I("LOAD_CONST", 0),
           I("WITH_CLEANUP_START", 0), I("WITH_CLEANUP_FINISH", 0), I("END_FINALLY", 0)>>

RECURSIVE WithBlock(_, _, _, _, _, _)
\* managers i..n; tail follows the second manager's statement inside the first
WithBlock(i, n, named, body, tail, oneline) ==
    WithItem(i, named[i], i = 1 \/ ~ oneline,
             IF i = n THEN body
             ELSE WithBlock(i + 1, n, named, body, tail, oneline)
                    \o (IF i = 1 THEN tail ELSE <<>>))

InitWith ==
    \E n \in 1..MaxWith : \E named \in [1..n -> BOOLEAN] : \E body \in WithBodies :
      \E tail \in {<<>>, <<L("DELETE_NAME", 9)>>} : \E oneline \in BOOLEAN :
        /\ n = 1 => tail = <<>> /\ ~ oneline
        /\ Start(ModuleCode(WithBlock(1, n, named, body, tail, oneline), WithNames, 0))

NextWith ==
    \/ Code__init__
    \/ get_suite
    \/ Run_LOAD_NAME
    \/ Run_SETUP_WITH
    \/ Run_LOAD_CONST
    \/ Run_RETURN_VALUE
    \/ get_suite_return
    \/ Display

SpecWith == InitWith /\ [][NextWith]_vars

\* positions in the stream of c of its SETUP_WITH instructions
SetupWithAt(c) == {i \in 1..Len(c.instr_seq) : c.instr_seq[i].op = "SETUP_WITH"}

\* position of the cleanup the SETUP_WITH at position i jumps to
WithCleanupAt(c, i) == i + 1 + c.instr_seq[i].arg \div 2

\* every context manager but the outermost is opened right after the one
\* before it bound its target, and its cleanup is followed at once by the
\* POP_BLOCK that ends the enclosing with: each with has, as its suite, exactly
\* the next with
BackToBack(c) ==
    \A i \in SetupWithAt(c) :
        \/ i = CHOOSE m \in SetupWithAt(c) : \A k \in SetupWithAt(c) : k <= m
        \/ /\ i + 3 \in SetupWithAt(c)
           /\ WithCleanupAt(c, i) = WithCleanupAt(c, i + 3) + 5

\* what the source said of the manager opened at position i
ManagerText(c, i) ==
    <<c.names[c.instr_seq[i - 1].arg + 1]>>
      \o (IF c.instr_seq[i + 1].op = "STORE_NAME"
          THEN <<"as", c.names[c.instr_seq[i + 1].arg + 1]>> ELSE <<>>)

RECURSIVE ManagersFrom(_, _)
\* the managers opened at position i and after, outermost first
ManagersFrom(c, i) ==
    IF i + 3 \in SetupWithAt(c)
    THEN ManagerText(c, i) \o <<",">> \o ManagersFrom(c, i + 3)
    ELSE ManagerText(c, i)

\* C5: when the context managers of a module are opened back to back, the
\* decompiled text has one with header, at the left margin, listing the
\* managers outermost first with their targets, and every other line is one
\* level deeper and is no with header
C5_BackToBackWithsShareOneHeader ==
    (pc = "shown" /\ SetupWithAt(code) # {} /\ BackToBack(code)) =>
        /\ Len(out.lines) >= 2
        /\ out.lines[1] = Line(0, <<"with">>
                \o ManagersFrom(code, CHOOSE m \in SetupWithAt(code) :
                                        \A k \in SetupWithAt(code) : m <= k)
                \o <<":">>)
        /\ \A i \in 2..Len(out.lines) :
              out.lines[i].lvl = 1 /\ out.lines[i].text[1] # "with"

\* two managers back to back, the first with a target, and a body of two lines
C5_Witness ==
    /\ pc = "shown"
    /\ Cardinality(SetupWithAt(code)) >= 2
    /\ BackToBack(code)
    /\ Len(out.lines) = 3
    /\ Len(out.lines[1].text) >= 6
    /\ SubSeq(out.lines[1].text, 1, 6) = <<"with", "a", "as", "x", ",", "b">>

(***************************************************************************)
(* If statements: if / elif / else chains of at most MaxIf tests, as       *)
(* compiler_if emits them.                                                 *)
(***************************************************************************)
\* a module whose last suite is pass on a line of its own: the LOAD_CONST of
\* the implicit return is the first instruction of that line
ModuleCodeLn(block, names, none, newline) ==
    [ModuleCode(block, names, none) EXCEPT
        !.linemap = IF newline THEN @ \cup {2 * Len(block)} ELSE @]

IfNames == WithNames

\* the suites of the chains: pass; del s; the expression s; with s: pass
IfBodies ==
    {<<>>,
     <<L("DELETE_NAME", 8)>>,
     <<L("LOAD_NAME", 8), I("POP_TOP", 0)>>,
     WithItem(9, FALSE, TRUE, <<>>)}

RECURSIVE IfChain(_, _, _, _, _, _, _)
\* the tests i..n of a chain that starts at instruction `at`: the test, the
\* jump over the suite, the suite, the jump to the end when an elif or an else
\* follows, and the rest
IfHead(at, i, negs, body, has_rest, rest) ==
    <<L("LOAD_NAME", i - 1),
      I(IF negs[i] THEN "POP_JUMP_IF_TRUE" ELSE "POP_JUMP_IF_FALSE",
        2 * (at + 2 + Len(body) + (IF has_rest THEN 1 ELSE 0)))>>
      \o body
      \o (IF has_rest THEN <<B(body = <<>>, "JUMP_FORWARD", 2 * Len(rest))>> ELSE <<>>)
      \o rest

IfChain(at, i, n, negs, bodies, haselse, orelse) ==
    IfHead(at, i, negs, bodies[i], i < n \/ haselse,
           IF i < n
           THEN IfChain(at + 3 + Len(bodies[i]), i + 1, n, negs, bodies, haselse, orelse)
           ELSE IF haselse THEN orelse ELSE <<>>)

InitIf ==
    \E n \in 1..MaxIf : \E negs \in [1..n -> BOOLEAN] : \E bodies \in [1..n -> IfBodies] :
      \E haselse \in BOOLEAN : \E orelse \in IfBodies : \E newline \in BOOLEAN :
        /\ ~ haselse => orelse = <<>>
        /\ newline => IF haselse THEN orelse = <<>> ELSE bodies[n] = <<>>
        /\ Start(ModuleCodeLn(IfChain(0, 1, n, negs, bodies, haselse, orelse),
                              IfNames, 0, newline))

NextIf ==
    \/ Code__init__
    \/ get_suite
    \/ Run_LOAD_NAME
    \/ Run_POP_JUMP_IF_FALSE
    \/ Run_POP_JUMP_IF_TRUE
    \/ Run_LOAD_CONST
    \/ Run_RETURN_VALUE
    \/ get_suite_return
    \/ Display

SpecIf == InitIf /\ [][NextIf]_vars


\* a line that opens a block
IsHeader(line) ==
    line.text # <<>> /\ (line.text[Len(line.text)] = ":" \/ line.text = <<"else:">>)

\* the conditional jumps whose target is the next instruction
JumpsToNext(c) ==
    {i \in 1..Len(c.instr_seq) :
        c.instr_seq[i].op \in pop_jump_if_opcodes /\ c.instr_seq[i].arg = 2 * i}

\* the source text of the test whose jump is at position i
TestText(c, i) ==
    (IF c.instr_seq[i].op = "POP_JUMP_IF_TRUE" THEN <<"not">> ELSE <<>>)
      \o <<c.names[c.instr_seq[i - 1].arg + 1]>>

\* C6: the decompiled text has at least one line; every line that opens a
\* block is followed by a line one level deeper; the suite of a with whose
\* body has no statement is the single line pass; and for every conditional
\* jump to the next instruction the text has the header of its test followed
\* by pass one level deeper
C6_EmptySuitesRenderPass ==
    pc = "shown" =>
        /\ Len(out.lines) >= 1
        /\ \A i \in 1..Len(out.lines) :
              IsHeader(out.lines[i]) =>
                 /\ i < Len(out.lines)
                 /\ out.lines[i + 1].lvl = out.lines[i].lvl + 1
                 /\ out.lines[i].text = <<"with", "s", ":">> =>
                       /\ out.lines[i + 1] = Line(out.lines[i].lvl + 1, <<"pass">>)
                       /\ i + 2 <= Len(out.lines) =>
                             out.lines[i + 2].lvl <= out.lines[i].lvl
        /\ \A j \in JumpsToNext(code) :
              \E i \in 1..(Len(out.lines) - 1) :
                 /\ out.lines[i].text \in
                       {<<"if">> \o TestText(code, j) \o <<":">>,
                        <<"elif">> \o TestText(code, j) \o <<":">>}
                 /\ out.lines[i + 1] = Line(out.lines[i].lvl + 1, <<"pass">>)

\* if a: (a with of an empty body) elif not b: pass, the elif jumping to the
\* next instruction
C6_Witness ==
    /\ pc = "shown"
    /\ JumpsToNext(code) # {}
    /\ out.lines = <<Line(0, <<"if", "a", ":">>), Line(1, <<"with", "s", ":">>),
                     Line(2, <<"pass">>), Line(0, <<"elif", "not", "b", ":">>),
                     Line(1, <<"pass">>)>>

(***************************************************************************)
(* Boolean chains: `if <chain>: <suite>` and `x = <chain>` where the chain *)
(* is 2..MaxBool names, some negated, joined by one boolean operator.      *)
(***************************************************************************)
BoolNames == WithNames

\* the suites of the if statements: pass; del s
BoolBodies == {<<>>, <<L("DELETE_NAME", 8)>>}

\* compiler_jump_if on a BoolOp: every operand is a test with a jump; `not`
\* flips the sense of the jump.  The operands of `and` jump to the end when
\* false; those of `or` jump to the suite when true, the last to the end
\* when false.
BoolTest(i, n, isor, neg, body) ==
    <<B(i = 1, "LOAD_NAME", i - 1),
      IF isor /\ i < n
      THEN I(IF neg THEN "POP_JUMP_IF_FALSE" ELSE "POP_JUMP_IF_TRUE", 2 * (2 * n))
      ELSE I(IF neg THEN "POP_JUMP_IF_TRUE" ELSE "POP_JUMP_IF_FALSE",
             2 * (2 * n + Len(body)))>>

RECURSIVE BoolTests(_, _, _, _, _)
BoolTests(i, n, isor, negs, body) ==
    IF i > n THEN <<>>
    ELSE BoolTest(i, n, isor, negs[i], body) \o BoolTests(i + 1, n, isor, negs, body)

\* the instructions of operand i in value context
BoolOperand(i, neg) ==
    <<B(i = 1, "LOAD_NAME", i - 1)>> \o (IF neg THEN <<I("UNARY_NOT", 0)>> ELSE <<>>)

RECURSIVE BoolValueLen(_, _, _)
\* the number of instructions of operands i..n and the jumps between them
BoolValueLen(i, n, negs) ==
    IF i > n THEN 0
    ELSE 1 + (IF negs[i] THEN 1 ELSE 0) + (IF i < n THEN 1 ELSE 0)
           + BoolValueLen(i + 1, n, negs)

RECURSIVE BoolValue(_, _, _, _)
\* compiler_boolop: every operand but the last is followed by a jump to the
\* end that keeps the operand as the value
BoolValue(i, n, isor, negs) ==
    IF i > n THEN <<>>
    ELSE BoolOperand(i, negs[i])
           \o (IF i < n
               THEN <<I(IF isor THEN "JUMP_IF_TRUE_OR_POP" ELSE "JUMP_IF_FALSE_OR_POP",
                        2 * BoolValueLen(1, n, negs))>>
               ELSE <<>>)
           \o BoolValue(i + 1, n, isor, negs)

InitBool ==
    \E n \in 2..MaxBool : \E isor \in BOOLEAN : \E negs \in [1..n -> BOOLEAN] :
      \/ \E body \in BoolBodies :
            Start(ModuleCodeLn(BoolTests(1, n, isor, negs, body) \o body,
                               BoolNames, 0, body = <<>>))
      \/ Start(ModuleCode(BoolValue(1, n, isor, negs) \o <<I("STORE_NAME", 4)>>,
                          BoolNames, 0))

NextBool ==
    \/ Code__init__
    \/ get_suite
    \/ Run_LOAD_NAME
    \/ Run_UNARY_NOT
    \/ Run_POP_JUMP_IF_FALSE
    \/ Run_POP_JUMP_IF_TRUE
    \/ Run_JUMP_IF_FALSE_OR_POP
    \/ Run_JUMP_IF_TRUE_OR_POP
    \/ Run_STORE_NAME
    \/ Run_DELETE_NAME
    \/ Run_LOAD_CONST
    \/ Run_RETURN_VALUE
    \/ get_suite_return
    \/ Display

SpecBool == InitBool /\ [][NextBool]_vars

\* C2: a chain of one boolean operator is never rendered with a parenthesis
\* between two of its operators: no line of the decompiled module has an
\* opening parenthesis right after `and` or `or`, as in `a and (b and c)`.
C2_NoParenthesesBetweenEqualOperators ==
    pc = "shown" =>
        \A i \in 1..Len(out.lines) :
            \A j \in 1..(Len(out.lines[i].text) - 1) :
                ~ /\ out.lines[i].text[j] \in {"and", "or"}
                  /\ out.lines[i].text[j + 1] = "("

(***************************************************************************)
(* Comparison chains: `if [not] a OP b OP c ...: <suite>` and              *)
(* `x = a OP b OP c ...` over 2..MaxCmp names.                             *)
(***************************************************************************)
CmpNames == WithNames

\* the arguments of COMPARE_OP the chains use: <, ==, is
CmpArgs == {0, 2, 8}

CmpBodies == BoolBodies

\* compiler_compare and compiler_jump_if: the operand i of 2..n-1 is loaded,
\* duplicated under the result of its comparison, and a false result jumps to
\* the cleanup that pops the duplicate
RECURSIVE CmpLinks(_, _, _, _, _)
CmpLinks(i, n, ops, jumpop, cleanup) ==
    IF i >= n THEN <<>>
    ELSE <<I("LOAD_NAME", i - 1), I("DUP_TOP", 0), I("ROT_THREE", 0),
           I("COMPARE_OP", ops[i - 1]), I(jumpop, 2 * cleanup)>>
           \o CmpLinks(i + 1, n, ops, jumpop, cleanup)

\* the address of the load of the last operand
CmpLast(n) == 1 + 5 * (n - 2)

\* compiler_jump_if on a Compare: the test of an if statement
CmpTest(n, ops, neg, body) ==
    <<L("LOAD_NAME", 0)>>
      \o CmpLinks(2, n, ops, "POP_JUMP_IF_FALSE", CmpLast(n) + 4)
      \o <<I("LOAD_NAME", n - 1), I("COMPARE_OP", ops[n - 1])>>
      \o (IF n = 2
          THEN <<I(IF neg THEN "POP_JUMP_IF_TRUE" ELSE "POP_JUMP_IF_FALSE",
                   2 * (4 + Len(body)))>>
          ELSE IF neg
          THEN <<I("POP_JUMP_IF_TRUE", 2 * (CmpLast(n) + 5 + Len(body))),
                 I("JUMP_FORWARD", 2), I("POP_TOP", 0)>>
          ELSE <<I("POP_JUMP_IF_FALSE", 2 * (CmpLast(n) + 6 + Len(body))),
                 I("JUMP_FORWARD", 4), I("POP_TOP", 0),
                 I("JUMP_FORWARD", 2 * Len(body))>>)

\* compiler_compare: the value of a comparison
CmpValue(n, ops) ==
    <<L("LOAD_NAME", 0)>>
      \o CmpLinks(2, n, ops, "JUMP_IF_FALSE_OR_POP", CmpLast(n) + 3)
      \o <<I("LOAD_NAME", n - 1), I("COMPARE_OP", ops[n - 1])>>
      \o (IF n = 2 THEN <<>>
          ELSE <<I("JUMP_FORWARD", 4), I("ROT_TWO", 0), I("POP_TOP", 0)>>)

InitCmp ==
    \E n \in 2..MaxCmp : \E ops \in [1..(n - 1) -> CmpArgs] :
      \/ \E neg \in BOOLEAN : \E body \in CmpBodies :
            Start(ModuleCodeLn(CmpTest(n, ops, neg, body) \o body, CmpNames, 0,
                               body = <<>>))
      \/ Start(ModuleCode(CmpValue(n, ops) \o <<I("STORE_NAME", 4)>>, CmpNames, 0))

NextCmp ==
    \/ Code__init__
    \/ get_suite
    \/ Run_LOAD_NAME
    \/ Run_DUP_TOP
    \/ Run_ROT_THREE
    \/ Run_COMPARE_OP
    \/ Run_POP_JUMP_IF_FALSE
    \/ Run_POP_JUMP_IF_TRUE
    \/ Run_JUMP_IF_FALSE_OR_POP
    \/ Run_JUMP_FORWARD
    \/ Run_POP_TOP
    \/ Run_STORE_NAME
    \/ Run_DELETE_NAME
    \/ Run_LOAD_CONST
    \/ Run_RETURN_VALUE
    \/ get_suite_return
    \/ Display

SpecCmp == InitCmp /\ [][NextCmp]_vars

IsLoadName(instr) == instr.op = "LOAD_NAME"

IsCompareOp(instr) == instr.op = "COMPARE_OP"

RECURSIVE Interleave(_, _, _, _)
\* a OP1 b OP2 c ...: the operands in the order they are loaded and the
\* operators in the order of their COMPARE_OP instructions
Interleave(c, operands, ops, i) ==
    IF i > Len(operands) THEN <<>>
    ELSE <<c.names[operands[i].arg + 1]>>
           \o (IF i <= Len(ops) THEN <<cmp_op[ops[i].arg + 1]>> ELSE <<>>)
           \o Interleave(c, operands, ops, i + 1)

\* the text of the comparison chain the module was compiled from
ChainText(c) ==
    Interleave(c, SelectSeq(c.instr_seq, IsLoadName), SelectSeq(c.instr_seq, IsCompareOp), 1)

\* the expression of the statement the chain is in, below a leading `not`
ChainExpr(stmt) ==
    IF stmt.k = "AssignStatement" THEN stmt.chain[2]
    ELSE IF stmt.cond.k = "PyNot" THEN stmt.cond.operand
    ELSE stmt.cond

\* C3: every module of the family, a chained comparison as the test of an if
\* statement or as an assigned value, is decompiled, and its first statement
\* holds the chain as one PyCompare a OP1 b OP2 c ... that is rendered as one
\* comparison chain, each middle operand once.
C3_ChainsFoldToOneCompare ==
    pc \in {"shown", "raised"} =>
        /\ pc = "shown"
        /\ Len(out.suite.statements) >= 1
        /\ out.suite.statements[1].k \in {"IfStatement", "AssignStatement"}
        /\ ChainExpr(out.suite.statements[1]).k = "PyCompare"
        /\ Str(ChainExpr(out.suite.statements[1])) = ChainText(code)
        /\ out.lines[1].text \in {<<"if">> \o ChainText(code) \o <<":">>,
                                  <<"if", "not">> \o ChainText(code) \o <<":">>,
                                  <<"x", "=">> \o ChainText(code)}
(***************************************************************************)
(* try statements: a try suite, 1..MaxExc except clauses (typed, typed and *)
(* named, or a bare last one), an optional else and an optional finally.   *)
(***************************************************************************)
\* exception types a b c, targets x y z, and the names the suites delete:
\* s in the try suite, t in a handler, u in the else suite, d in the finally
TryNames == WithNames

\* a suite of a try statement: pass, or del of the name numbered n
TrySuites(n) == {<<>>, <<L("DELETE_NAME", n)>>}

\* the kinds of except clause: `except T:`, `except T as e:`, `except:`
ExceptKinds == {"typed", "named", "bare"}

\* an except clause of the source
ExceptClause(kind, body) == [kind |-> kind, body |-> body]

\* the clauses of a try statement: a bare clause can only come last
ExceptClauses ==
    UNION {{cls \in [1..n -> {ExceptClause(k, b) : k \in ExceptKinds, b \in TrySuites(9)}] :
               \A i \in 1..(n - 1) : cls[i].kind # "bare"} : n \in 1..MaxExc}

\* the number of instructions of the handler of a clause
HandlerLen(cl) ==
    (IF cl.kind = "bare" THEN 0 ELSE 4)
      + (IF cl.kind = "named" THEN 11 ELSE 4) + Len(cl.body) + 1

RECURSIVE HandlersLen(_, _)
\* the number of instructions of the handlers i.. of cls
HandlersLen(cls, i) ==
    IF i > Len(cls) THEN 0 ELSE HandlerLen(cls[i]) + HandlersLen(cls, i + 1)

\* compiler_try_except, one handler that starts at instruction `at`: the
\* match of the type, the store of the name around a try/finally that
\* unbinds it, the suite, POP_EXCEPT and the jump over `after` instructions
Handler(at, i, cl, after) ==
    (IF cl.kind = "bare" THEN <<L("POP_TOP", 0)>>
     ELSE <<L("DUP_TOP", 0), I("LOAD_NAME", i - 1), I("COMPARE_OP", 10),
            I("POP_JUMP_IF_FALSE", 2 * (at + HandlerLen(cl))), I("POP_TOP", 0)>>)
      \o (IF cl.kind = "named"
          THEN <<I("STORE_NAME", 3 + i), I("POP_TOP", 0),
                 I("SETUP_FINALLY", 2 * (Len(cl.body) + 2))>>
                 \o cl.body
                 \o <<B(cl.body = <<>>, "POP_BLOCK", 0), I("LOAD_CONST", 0),
                      I("LOAD_CONST", 0), I("STORE_NAME", 3 + i), I("DELETE_NAME", 3 + i),
                      I("END_FINALLY", 0), I("POP_EXCEPT", 0)>>
          ELSE <<I("POP_TOP", 0), I("POP_TOP", 0)>> \o cl.body
                 \o <<B(cl.body = <<>>, "POP_EXCEPT", 0)>>)
      \o <<I("JUMP_FORWARD", 2 * after)>>

RECURSIVE Handlers(_, _, _, _)
\* the handlers i.. of cls from instruction `at`; each ends with a jump over
\* the later handlers, the END_FINALLY and the else suite of elselen
\* instructions
Handlers(at, i, cls, elselen) ==
    IF i > Len(cls) THEN <<>>
    ELSE Handler(at, i, cls[i], HandlersLen(cls, i + 1) + 1 + elselen)
           \o Handlers(at + HandlerLen(cls[i]), i + 1, cls, elselen)

\* compiler_try_except from instruction `at`
TryExcept(at, body, cls, orelse) ==
    <<B(at = 0, "SETUP_EXCEPT", 2 * (Len(body) + 2))>> \o body
      \o <<B(body = <<>>, "POP_BLOCK", 0),
           I("JUMP_FORWARD", 2 * (HandlersLen(cls, 1) + 1))>>
      \o Handlers(at + Len(body) + 3, 1, cls, Len(orelse))
      \o <<I("END_FINALLY", 0)>> \o orelse

\* compiler_try_finally around a try with except clauses
TryFinally(body, cls, orelse, final) ==
    <<L("SETUP_FINALLY", 2 * (Len(TryExcept(1, body, cls, orelse)) + 2))>>
      \o TryExcept(1, body, cls, orelse)
      \o <<I("POP_BLOCK", 0), I("LOAD_CONST", 0)>> \o final
      \o <<B(final = <<>>, "END_FINALLY", 0)>>

InitTry ==
    \E body \in TrySuites(8) : \E cls \in ExceptClauses :
      \E orelse \in TrySuites(7) :
        \/ Start(ModuleCode(TryExcept(0, body, cls, orelse), TryNames, 0))
        \/ \E final \in TrySuites(3) :
              Start(ModuleCode(TryFinally(body, cls, orelse, final), TryNames, 0))

NextTry ==
    \/ Code__init__
    \/ get_suite
    \/ Run_SETUP_FINALLY
    \/ Run_SETUP_EXCEPT
    \/ Run_LOAD_CONST
    \/ Run_RETURN_VALUE
    \/ get_suite_return
    \/ Display

SpecTry == InitTry /\ [][NextTry]_vars
\* the source of a compiled try statement, read back from its instructions
TryAt(c) == IF opcode(c, 0) = "SETUP_FINALLY" THEN 1 ELSE 0

ArgAt(c, a) == c.instr_seq[a + 1].arg

NameAt(c, a) == c.names[ArgAt(c, a) + 1]

\* the suite that starts at a: del of a name, or pass, which compiles to nothing
SuiteText(c, a) ==
    IF opcode(c, a) = "DELETE_NAME" THEN <<Line(1, <<"del", NameAt(c, a)>>)>>
    ELSE <<Line(1, <<"pass">>)>>

RECURSIVE ClausesText(_, _)
\* the except clauses whose handlers start at h, in the order of the source
ClausesText(c, h) ==
    IF opcode(c, h) = "DUP_TOP"
    THEN <<Line(0, <<"except", NameAt(c, h + 1)>>
                     \o (IF opcode(c, h + 5) = "STORE_NAME"
                         THEN <<"as", NameAt(c, h + 5)>> ELSE <<>>)
                     \o <<":">>)>>
           \o SuiteText(c, IF opcode(c, h + 5) = "STORE_NAME" THEN h + 8 ELSE h + 7)
           \o ClausesText(c, ArgAt(c, h + 3) \div 2)
    ELSE IF opcode(c, h) = "POP_TOP"
    THEN <<Line(0, <<"except:">>)>> \o SuiteText(c, h + 3)
    ELSE <<>>

RECURSIVE EndHandlers(_, _)
\* the END_FINALLY that follows the handlers that start at h
EndHandlers(c, h) ==
    IF opcode(c, h) = "DUP_TOP" THEN EndHandlers(c, ArgAt(c, h + 3) \div 2)
    ELSE IF opcode(c, h) = "POP_TOP"
    THEN h + 5 + (IF opcode(c, h + 3) = "DELETE_NAME" THEN 1 ELSE 0)
    ELSE h

\* the try statement the module c was compiled from
TryText(c) ==
    <<Line(0, <<"try:">>)>> \o SuiteText(c, TryAt(c) + 1)
      \o ClausesText(c, jump(c, TryAt(c)))
      \o (IF opcode(c, EndHandlers(c, jump(c, TryAt(c))) + 1) = "DELETE_NAME"
          THEN <<Line(0, <<"else:">>)>>
                 \o SuiteText(c, EndHandlers(c, jump(c, TryAt(c))) + 1)
          ELSE <<>>)
      \o (IF TryAt(c) = 1
          THEN <<Line(0, <<"finally:">>)>> \o SuiteText(c, jump(c, 0))
          ELSE <<>>)

\* C4: a try statement with except clauses, an else suite and a finally suite
\* is decompiled to its source: `try:` once, one header per except clause in
\* the order of the clauses, each `as` name on the clause of its own type
\* test, then `else:` once and `finally:` once, each followed by its suite.
C4_TryClausesInOrder ==
    pc \in {"shown", "raised"} => pc = "shown" /\ out.lines = TryText(code)

\* `try: del s / except a as x: del t / except b: pass / else: del u /
\* finally: del d` was decompiled
C4_Witness ==
    /\ pc = "shown"
    /\ out.lines = <<Line(0, <<"try:">>), Line(1, <<"del", "s">>),
                     Line(0, <<"except", "a", "as", "x", ":">>), Line(1, <<"del", "t">>),
                     Line(0, <<"except", "b", ":">>), Line(1, <<"pass">>),
                     Line(0, <<"else:">>), Line(1, <<"del", "u">>),
                     Line(0, <<"finally:">>), Line(1, <<"del", "d">>)>>
(***************************************************************************)
(* While loops: `while [not] a: <body> [else: del u]` where the body is    *)
(* at most MaxBody statements, none of them a break.                       *)
(***************************************************************************)
WhileNames == WithNames

\* the statements of a body: del s; continue; if b: del s; if b: continue;
\* if b: pass
BodyKinds == {"del", "continue", "ifdel", "ifcontinue", "ifpass"}

\* the last statement of the body ends with pass, which compiles to nothing
EndsWithPass(kinds) == kinds = <<>> \/ kinds[Len(kinds)] = "ifpass"

\* the bodies: no statement stands for pass
WhileBodies == UNION {[1..n -> BodyKinds] : n \in 0..MaxBody}

\* the instructions of the statement kind at instruction pos of a loop whose
\* condition starts at top: continue is a jump to top, and the jump of an if
\* that ends the body goes to top instead of to the closing jump to top
BodyStmt(pos, kind, islast, top) ==
    IF kind = "del" THEN <<L("DELETE_NAME", 8)>>
    ELSE IF kind = "continue" THEN <<L("JUMP_ABSOLUTE", 2 * top)>>
    ELSE IF kind = "ifpass"
    THEN <<L("LOAD_NAME", 1), I("POP_JUMP_IF_FALSE", 2 * (IF islast THEN top ELSE pos + 2))>>
    ELSE <<L("LOAD_NAME", 1),
           I("POP_JUMP_IF_FALSE", 2 * (IF islast THEN top ELSE pos + 3)),
           IF kind = "ifdel" THEN L("DELETE_NAME", 8) ELSE L("JUMP_ABSOLUTE", 2 * top)>>

RECURSIVE BodyFrom(_, _, _, _)
\* the statements i.. of a body from instruction pos
BodyFrom(pos, kinds, i, top) ==
    IF i > Len(kinds) THEN <<>>
    ELSE BodyStmt(pos, kinds[i], i = Len(kinds), top)
           \o BodyFrom(pos + Len(BodyStmt(pos, kinds[i], FALSE, top)), kinds, i + 1, top)

\* compiler_while at instruction 0: SETUP_LOOP, the test with its jump to the
\* POP_BLOCK, the body, the closing jump to the test, POP_BLOCK and the else
\* suite
While(neg, kinds, orelse) ==
    <<L("SETUP_LOOP", 2 * (Len(BodyFrom(3, kinds, 1, 1)) + 4 + Len(orelse))),
      I("LOAD_NAME", 0),
      I(IF neg THEN "POP_JUMP_IF_TRUE" ELSE "POP_JUMP_IF_FALSE",
        2 * (Len(BodyFrom(3, kinds, 1, 1)) + 4))>>
      \o BodyFrom(3, kinds, 1, 1)
      \o <<B(EndsWithPass(kinds), "JUMP_ABSOLUTE", 2), I("POP_BLOCK", 0)>>
      \o orelse

InitWhile ==
    \E neg \in BOOLEAN : \E kinds \in WhileBodies : \E orelse \in TrySuites(7) :
        Start(ModuleCode(While(neg, kinds, orelse), WhileNames, 0))

NextWhile ==
    \/ Code__init__
    \/ get_suite
    \/ Run_SETUP_LOOP
    \/ Run_POP_BLOCK
    \/ Run_LOAD_CONST
    \/ Run_RETURN_VALUE
    \/ get_suite_return
    \/ Display

SpecWhile == InitWhile /\ [][NextWhile]_vars
\* the jump back to the test that compiler_while puts after the body: the
\* instruction before the POP_BLOCK the test jumps to
ClosingJump(c) == jump(c, 2) - 1

\* the body ends with a continue statement of the source: a jump back to the
\* test on a line of its own, just before the closing jump, and not the
\* suite of an if statement, whose test would jump over it to the test of the
\* loop
EndsWithContinue(c) ==
    /\ opcode(c, ClosingJump(c) - 1) = "JUMP_ABSOLUTE"
    /\ InLinemap(c, ClosingJump(c) - 1)
    /\ ~ /\ opcode(c, ClosingJump(c) - 2) = "POP_JUMP_IF_FALSE"
         /\ ClosingJump(c) - 2 > 2
         /\ jump(c, ClosingJump(c) - 2) = 1

\* the decompiled module is one while statement
IsWhile(o) ==
    /\ Len(o.suite.statements) = 1
    /\ o.suite.statements[1].k = "WhileStatement"
    /\ o.suite.statements[1].body.k = "Suite"
    /\ o.suite.statements[1].body.statements # <<>>

\* the last statement of the body of the while statement
LastOfBody(o) ==
    o.suite.statements[1].body.statements[Len(o.suite.statements[1].body.statements)]

FooVarnames(n) == <<"x", "y", "z", "args">> \o SubSeq(<<"i", "j", "k", "l">>, 1, n)

\* co_names
FooNames == <<"zip", "g">>

\* the code object of a function whose body compiles to block, followed by
\* the implicit return of None, and whose loop target has n names
FunctionCode(block, n) ==
    [instr_seq |-> [i \in 1..(Len(block) + 2) |->
                      IF i <= Len(block) THEN Instr(block[i].op, block[i].arg)
                      ELSE IF i = Len(block) + 1 THEN Instr("LOAD_CONST", 0)
                      ELSE Instr("RETURN_VALUE", 0)],
     linemap |-> {0} \cup {2 * (i - 1) : i \in {j \in 1..Len(block) : block[j].ln}},
     name |-> "foo", flags |-> PlainFlags, names |-> FooNames, varnames |-> FooVarnames(n),
     consts |-> <<ConstVal("NoneType", "None")>>, parent_names |-> {},
     co_cellvars |-> <<>>, co_freevars |-> <<>>, annotations |-> <<>>,
     co_argcount |-> 3, co_kwonlyargcount |-> 0, co_varargs |-> TRUE,
     co_varkeywords |-> FALSE, defaults |-> <<"3">>]

\* the iterables: x, zip(x, y)
ForIterables ==
    {<<I("LOAD_FAST", 0)>>,
     <<I("LOAD_GLOBAL", 0), I("LOAD_FAST", 0), I("LOAD_FAST", 1), I("CALL_FUNCTION", 2)>>}

\* the store of a target of n names: i, or i, j, ...
ForTarget(n) ==
    IF n = 1 THEN <<I("STORE_FAST", 4)>>
    ELSE <<I("UNPACK_SEQUENCE", n)>> \o [m \in 1..n |-> I("STORE_FAST", 3 + m)]

\* the suites: pass; g = i; g = i, v; and the if statement of the docstring
ForSuiteKinds == {"pass", "assign", "tuple", "ifreturn"}

\* the suite of the kind at instruction `at` of a loop whose FOR_ITER is at
\* `head`; v is the second local the suite reads, j when the target has it
ForSuite(kind, at, head, v) ==
    IF kind = "pass" THEN <<>>
    ELSE IF kind = "assign" THEN <<L("LOAD_FAST", 4), I("STORE_GLOBAL", 1)>>
    ELSE IF kind = "tuple"
    THEN <<L("LOAD_FAST", 4), I("LOAD_FAST", v), I("BUILD_TUPLE", 2), I("STORE_GLOBAL", 1)>>
    ELSE <<L("LOAD_FAST", 2), I("LOAD_FAST", 4), I("LOAD_FAST", v), I("BINARY_ADD", 0),
           I("COMPARE_OP", 2), I("POP_JUMP_IF_TRUE", 2 * (at + 12)),
           I("LOAD_FAST", 3), I("LOAD_FAST", 4), I("BINARY_SUBSCR", 0), I("LOAD_FAST", v),
           I("COMPARE_OP", 2), I("POP_JUMP_IF_FALSE", 2 * head),
           L("LOAD_FAST", 4), I("LOAD_FAST", v), I("BUILD_TUPLE", 2), I("STORE_GLOBAL", 1),
           L("LOAD_CONST", 0), I("RETURN_VALUE", 0)>>

\* compiler_for at instruction 0: SETUP_LOOP, the iterable, GET_ITER,
\* FOR_ITER to the POP_BLOCK, the target, the suite, the jump back
For(iter, n, kind) ==
    <<L("SETUP_LOOP",
        2 * (Len(iter) + 1 + Len(ForTarget(n))
               + Len(ForSuite(kind, 0, 0, 0)) + 3))>>
      \o iter
      \o <<I("GET_ITER", 0),
           I("FOR_ITER", 2 * (Len(ForTarget(n)) + Len(ForSuite(kind, 0, 0, 0)) + 1))>>
      \o ForTarget(n)
      \o ForSuite(kind, Len(iter) + 3 + Len(ForTarget(n)), Len(iter) + 2,
                  IF n = 1 THEN 1 ELSE 5)
      \o <<B(kind = "pass", "JUMP_ABSOLUTE", 2 * (Len(iter) + 2)), I("POP_BLOCK", 0)>>

\* the function of the module docstring
Foo == FunctionCode(For(<<I("LOAD_GLOBAL", 0), I("LOAD_FAST", 0), I("LOAD_FAST", 1),
                          I("CALL_FUNCTION", 2)>>, 2, "ifreturn"), 2)

InitFor ==
    \E iter \in ForIterables : \E n \in 1..MaxTarget : \E kind \in ForSuiteKinds :
        Start(FunctionCode(For(iter, n, kind), n))

NextFor ==
    \/ Code__init__
    \/ get_suite
    \/ Run_SETUP_LOOP
    \/ Run_LOAD_GLOBAL
    \/ Run_LOAD_FAST
    \/ Run_CALL_FUNCTION
    \/ Run_GET_ITER
    \/ Run_FOR_ITER
    \/ Run_POP_BLOCK
    \/ Run_LOAD_CONST
    \/ Run_RETURN_VALUE
    \/ get_suite_return
    \/ DisplayDef

SpecFor == InitFor /\ [][NextFor]_vars
(***************************************************************************)
(* C1: the function foo of the module docstring.                           *)
(***************************************************************************)
\* the text the module docstring shows for print(decompile(foo))
DocstringText ==
    <<Line(0, <<>>),
      Line(0, <<"def", "foo", "(", "x", ",", "y", ",", "z", "=", "3", ",", "*", "args", ")", ":">>),
      Line(1, <<"global", "g">>),
      Line(1, <<"for", "i", ",", "j", "in", "zip", "(", "x", ",", "y", ")", ":">>),
      Line(2, <<"if", "z", "==", "i", "+", "j", "or", "args", "[", "i", "]", "==", "j", ":">>),
      Line(3, <<"g", "=", "i", ",", "j">>),
      Line(3, <<"return">>),
      Line(0, <<>>)>>

\* what the decompiler renders for foo: both tuples in parentheses
RenderedText ==
    <<Line(0, <<>>),
      Line(0, <<"def", "foo", "(", "x", ",", "y", ",", "z", "=", "3", ",", "*", "args", ")", ":">>),
      Line(1, <<"global", "g">>),
      Line(1, <<"for", "(", "i", ",", "j", ")", "in", "zip", "(", "x", ",", "y", ")", ":">>),
      Line(2, <<"if", "z", "==", "i", "+", "j", "or", "args", "[", "i", "]", "==", "j", ":">>),
      Line(3, <<"g", "=", "(", "i", ",", "j", ")">>),
      Line(3, <<"return">>),
      Line(0, <<>>)>>

\* C1: decompiling the function foo of the module docstring renders exactly
\* the text shown there, the target `i, j` of the loop and the assigned tuple
\* `i, j` without enclosing parentheses
C1_FooAsInDocstring ==
    pc = "shown" /\ code.instr_seq = Foo.instr_seq => out.lines = DocstringText

\* foo is decompiled and the text has `for (i, j) in` and `g = (i, j)`
C1_Rendered ==
    pc = "shown" /\ code.instr_seq = Foo.instr_seq /\ out.lines = RenderedText
(***************************************************************************)
(* Streams with arbitrary jumps: every stream of at most MaxJump           *)
(* instructions that load names, pop, or jump to any instruction of the    *)
(* stream, followed by the return of None.                                 *)
(***************************************************************************)
JumpNames == <<"a", "b">>

\* the instructions that may stand at index i of a block of n instructions:
\* the targets are the instructions 0..n+1, forward of i for JUMP_FORWARD
JumpAlphabet(n, i) ==
    {I("LOAD_NAME", 0), I("LOAD_NAME", 1), I("POP_TOP", 0)}
      \cup {I("JUMP_FORWARD", 2 * k) : k \in 0..(n - i)}
      \cup {I("JUMP_IF_FALSE_OR_POP", 2 * t) : t \in 0..(n + 1)}

JumpBlocks(n) == {b \in [1..n -> UNION {JumpAlphabet(n, i) : i \in 0..(n - 1)}] :
                    \A i \in 1..n : b[i] \in JumpAlphabet(n, i - 1)}

InitJump == \E n \in 1..MaxJump : \E b \in JumpBlocks(n) : Start(ModuleCode(b, JumpNames, 0))

\* a pass of run while the model follows the loop
Following == out.passes < MaxPasses

Jump_LOAD_NAME == Following /\ Run_LOAD_NAME

Jump_POP_TOP == Following /\ Run_POP_TOP

Jump_JUMP_FORWARD == Following /\ Run_JUMP_FORWARD

Jump_JUMP_IF_FALSE_OR_POP == Following /\ Run_JUMP_IF_FALSE_OR_POP

Jump_LOAD_CONST == Following /\ Run_LOAD_CONST

Jump_RETURN_VALUE == Following /\ Run_RETURN_VALUE

NextJump ==
    \/ Code__init__
    \/ get_suite
    \/ Jump_LOAD_NAME
    \/ Jump_POP_TOP
    \/ Jump_JUMP_FORWARD
    \/ Jump_JUMP_IF_FALSE_OR_POP
    \/ Jump_LOAD_CONST
    \/ Jump_RETURN_VALUE
    \/ get_suite_return
    \/ Display

SpecJump == InitJump /\ [][NextJump]_vars

(***************************************************************************)
(* C11: forward progress of run.                                           *)
(***************************************************************************)
\* C11: every pass of run that leaves the loop running moved the cursor to an
\* instruction of strictly greater index than the dispatched one
C11_ForwardProgress ==
    [][pc = "run" /\ pc' = "run" /\ Running(dec', cursor') => cursor' > cursor]_vars

\* run is still in its loop after MaxPasses passes over a stream of at most
\* MaxJump + 2 instructions: the cursor went back
C11_StillRunning == pc = "run" /\ Running(dec, cursor) /\ out.passes = MaxPasses

\* the code object before Code.__init__ decodes its co_code
Raw(co) ==
    /\ code = [co_code |-> co, instr_seq |-> <<>>, instr_map |-> <<>>, linemap |-> {0},
               name |-> "<module>", flags |-> PlainFlags, names |-> <<"a">>,
               varnames |-> <<>>, consts |-> <<ConstVal("NoneType", "None")>>,
               parent_names |-> {}, co_cellvars |-> <<>>, co_freevars |-> <<>>,
               annotations |-> <<>>]
    /\ pc = "raw"
    /\ cursor = NoneAddr
    /\ dec = NoDec
    /\ world = NewWorld
    /\ out = NoOut

\* Code.__init__, the lines that decode: instr_seq and instr_map; an exception
\* of the generator leaves list() and __init__
Code_instr_seq ==
    /\ pc = "raw"
    /\ IF code_walker(code.co_code).exc # ""
       THEN /\ pc' = "raised"
            /\ out' = [out EXCEPT !.exc = code_walker(code.co_code).exc]
            /\ code' = code
       ELSE /\ pc' = "init"
            /\ out' = out
            /\ code' = [code EXCEPT !.instr_seq = code_walker(code.co_code).items,
                                    !.instr_map = instr_map(code_walker(code.co_code).items)]
    /\ UNCHANGED <<cursor, dec, world>>

\* the bytes of the arrays drawn by InitWalk: two opcodes, the prefix, the
\* largest byte
WalkBytes == {0, 1, EXTENDED_ARG, 255}

InitWalk == \E n \in 0..MaxBytes : \E co \in [1..n -> WalkBytes] : Raw(co)

NextWalk == Code_instr_seq

SpecWalk == InitWalk /\ [][NextWalk]_vars

(***************************************************************************)
(* C12: the items of the decoded stream.                                   *)
(***************************************************************************)
RECURSIVE BigEndian(_, _, _)

\* the number whose big-endian bytes are the operand bytes at from+1, from+3,
\* ..., upto-1 of co
BigEndian(co, from, upto) ==
    IF from >= upto THEN 0
    ELSE 256 * BigEndian(co, from, upto - 2) + ByteAt(co, upto - 1)

\* the byte offset after item j: the next item's, or the length of the array
ItemEnd(c, j) == IF j < Len(c.instr_seq) THEN c.instr_seq[j + 1].addr ELSE Len(c.co_code)

\* item j of the decoded stream stands for the instructions from its addr to
\* ItemEnd: prefixes only, then one instruction that is no prefix
FoldsPrefixes(c, j) ==
    /\ c.instr_seq[j].addr = (IF j = 1 THEN 0 ELSE ItemEnd(c, j - 1))
    /\ ItemEnd(c, j) - c.instr_seq[j].addr \in {2 * k : k \in 1..Len(c.co_code)}
    /\ \A b \in c.instr_seq[j].addr..(ItemEnd(c, j) - 3) :
          (b - c.instr_seq[j].addr) % 2 = 0 => ByteAt(c.co_code, b) = EXTENDED_ARG
    /\ c.instr_seq[j].op = opname(ByteAt(c.co_code, ItemEnd(c, j) - 2))
    /\ c.instr_seq[j].op # "EXTENDED_ARG"
    /\ c.instr_seq[j].arg = BigEndian(c.co_code, c.instr_seq[j].addr, ItemEnd(c, j))
    /\ c.instr_map[c.instr_seq[j].addr] = j - 1

\* C12: no item of the decoded stream is an EXTENDED_ARG; an item carries the
\* opcode of the instruction after its prefixes, the offset of the first
\* prefix and the big-endian concatenation of the operand bytes, and the
\* items cover the whole array
C12_PrefixesFolded ==
    pc = "init" =>
        /\ \A j \in 1..Len(code.instr_seq) : FoldsPrefixes(code, j)
        /\ (code.co_code = <<>>) = (code.instr_seq = <<>>)
        /\ code.instr_seq # <<>> => ItemEnd(code, Len(code.instr_seq)) = Len(code.co_code)

\* an instruction after two prefixes is one item
C12_Witness ==
    /\ pc = "init"
    /\ code.co_code = <<EXTENDED_ARG, 1, EXTENDED_ARG, 0, 1, 255>>
    /\ code.instr_seq = <<[addr |-> 0, op |-> "POP_TOP", arg |-> 65791]>>
(***************************************************************************)
(* Building a Code object from bytes: every stream of at most MaxRaw       *)
(* instructions without prefix that load a name, pop, or jump to any byte  *)
(* offset, followed by the return of None, whole or truncated.             *)
(***************************************************************************)
\* the instructions (opcode byte, operand byte) of a block of n instructions:
\* LOAD_NAME, POP_TOP, POP_JUMP_IF_FALSE to every offset up to the first one
\* past the stream, JUMP_FORWARD by 0, 1 and 2 bytes
RawAlphabet(n) ==
    {<<101, 0>>, <<1, 0>>} \cup {<<114, t>> : t \in 0..(2 * n + 4)}
      \cup {<<110, k>> : k \in 0..2}

RECURSIVE Flatten(_)

\* the bytes of a sequence of instructions
Flatten(pairs) == IF pairs = <<>> THEN <<>> ELSE Head(pairs) \o Flatten(Tail(pairs))

\* what follows the return: nothing, a lone opcode byte, a prefix with no
\* instruction after it
RawTails == {<<>>, <<1>>, <<EXTENDED_ARG, 0>>}

InitRaw ==
    \E n \in 0..MaxRaw : \E b \in [1..n -> RawAlphabet(n)] : \E tail \in RawTails :
        Raw(Flatten(b) \o <<100, 0, 83, 0>> \o tail)

NextRaw ==
    \/ Code_instr_seq
    \/ Code__init__

SpecRaw == InitRaw /\ [][NextRaw]_vars

(***************************************************************************)
(* C13: the errors of building a Code object.                              *)
(***************************************************************************)
\* the array has an odd length or ends in a prefix
Truncated(co) ==
    \/ Len(co) % 2 = 1
    \/ Len(co) >= 2 /\ ByteAt(co, Len(co) - 2) = EXTENDED_ARG

\* the operand of the jump at the even offset i is no offset of an instruction
\* (the arrays of InitRaw hold an instruction at every even offset)
OperandOutOfRange(co, i) ==
    \/ /\ opname(ByteAt(co, i)) \in hasjabs
       /\ ByteAt(co, i + 1) % 2 = 1 \/ ByteAt(co, i + 1) >= Len(co)
    \/ /\ opname(ByteAt(co, i)) \in hasjrel
       /\ ByteAt(co, i + 1) % 2 = 1 \/ i + 2 + ByteAt(co, i + 1) >= Len(co)

Malformed(co) ==
    \/ Truncated(co)
    \/ \E i \in 0..(Len(co) - 2) : i % 2 = 0 /\ OperandOutOfRange(co, i)

\* C13: building a Code object raises only when the stream is truncated or a
\* branch operand is not the offset of an instruction
C13_FailsOnlyOnMalformed == pc = "raised" => Malformed(code.co_code)

\* a malformed stream never yields a Code object
C13_MalformedIsReported == pc = "ready" => ~ Malformed(code.co_code)

\* the well-formed stream LOAD_NAME a; POP_JUMP_IF_FALSE 0; LOAD_CONST None;
\* RETURN_VALUE raises AttributeError in find_else
C13_RaisedOnWellFormed ==
    /\ pc = "raised"
    /\ code.co_code = <<101, 0, 114, 0, 100, 0, 83, 0>>
    /\ out.exc = AttributeErrorNone
(***************************************************************************)
(* Expression trees of unary, binary and ternary nodes, their rendering   *)
(* by __str__, and the grouping of the rendered tokens by the grammar of   *)
(* Python 3.7 expressions (test, not_test, expr ... term, factor, power,   *)
(* atom_expr, atom).                                                       *)
(***************************************************************************)
ExprOps == UnaryOps \cup BinaryOps \cup {"IFELSE"}

Arity(op) == IF op \in UnaryOps THEN 1 ELSE IF op \in BinaryOps THEN 2 ELSE 3

\* the node the handler of operator `op` builds from its operands; the operands
\* of IFELSE are the condition, the true expression, the false expression
ExprNode(op, args, at) ==
    CASE op = "NOT" -> PyNot(MkId("expr", at), args[1])
      [] op \in UnaryOps \ {"NOT"} -> PyUnaryOp(MkId("expr", at), op, args[1])
      [] op \in BinaryOps -> PyBinaryOp(MkId("expr", at), op, args[1], args[2])
      [] op = "IFELSE" -> PyIfElse(MkId("expr", at), args[1], args[2], args[3])

\* the names at the leaves under the i-th operand of the outermost operator
LeafNames == <<<<"a", "b", "c">>, <<"d", "e", "f">>, <<"g", "h", "i">>>>

\* no leaf is an integer constant, or the leaf lit.name is the constant lit.repr
ExprLiterals ==
    {[name |-> "", repr |-> ""]}
      \cup {[name |-> n, repr |-> r] : n \in {"a", "d"}, r \in {"2", "-2"}}

\* a leaf: a PyName, or the PyConst of an integer constant of co_consts (the
\* compiler folds the negation of a literal into a negative constant)
ExprLeaf(name, lit) ==
    IF lit.name = name THEN PyConst(MkId("leaf", 0), ConstVal("int", lit.repr))
    ELSE PyName(MkId("leaf", 0), name)

\* the i-th operand of the outermost operator: a leaf, or operator `op` over leaves
ExprOperand(op, i, lit) ==
    IF op = "leaf" THEN ExprLeaf(LeafNames[i][1], lit)
    ELSE ExprNode(op, [j \in 1..Arity(op) |-> ExprLeaf(LeafNames[i][j], lit)], i)

Expr(outer, inner, lit) ==
    ExprNode(outer, [i \in 1..Arity(outer) |-> ExprOperand(inner[i], i, lit)], 0)

\* the expression as the compiler's parser groups it: <<operator, operands>>,
\* a leaf being <<token, <<>>>>
Tree(op, args) == <<op, args>>

RECURSIVE Shape(_)
\* the tree of an expression object; a negative constant is the negation of a
\* literal in the source text
Shape(e) ==
    CASE e.k = "PyName" -> Tree(e.name, <<>>)
      [] e.k = "PyConst" ->
            IF e.val.repr = "-2" THEN Tree("NEGATIVE", <<Tree("2", <<>>)>>)
            ELSE Tree(e.val.repr, <<>>)
      [] e.k = "PyNot" -> Tree("NOT", <<Shape(e.operand)>>)
      [] e.k = "PyUnaryOp" -> Tree(e.op, <<Shape(e.operand)>>)
      [] e.k = "PyBinaryOp" -> Tree(e.op, <<Shape(e.left), Shape(e.right)>>)
      [] e.k = "PyIfElse" ->
            Tree("IFELSE", <<Shape(e.cond), Shape(e.true_expr), Shape(e.false_expr)>>)

RECURSIVE Lex(_)
\* the tokens of the rendered pieces: the repr of a negative integer is the
\* operator - and a number
Lex(toks) ==
    IF toks = <<>> THEN <<>>
    ELSE (IF toks[1] = "-2" THEN <<"-", "2">> ELSE <<toks[1]>>) \o Lex(Tail(toks))

Peek(toks) == IF toks = <<>> THEN "<end>" ELSE toks[1]

Parsed(t, rest) == [t |-> t, rest |-> rest]

ParseError == Parsed(Tree("<error>", <<>>), <<"<error>">>)

\* the binary operators of the grammar's left-associative levels: expr (|),
\* xor_expr, and_expr, shift_expr, arith_expr, term
TokensAt(level) ==
    CASE level = 7 -> {"|"}
      [] level = 8 -> {"^"}
      [] level = 9 -> {"&"}
      [] level = 10 -> {"<<", ">>"}
      [] level = 11 -> {"+", "-"}
      [] level = 12 -> {"*", "/", "//", "%", "@"}

BinaryTokens == UNION {TokensAt(l) : l \in 7..12}

\* the level of a binary operator
LevelOf(tok) == CHOOSE l \in 7..12 : tok \in TokensAt(l)

BinaryOpOf(tok) == CHOOSE op \in BinaryOps \ {"SUBSCR"} : BinaryPattern(op) = <<tok>>

UnaryOpOf(tok) == CHOOSE op \in UnaryOps \ {"NOT"} : UnaryPattern(op) = <<tok>>

Reserved ==
    {"(", ")", "[", "]", "if", "else", "not", "<end>", "<error>", "**", "~"}
      \cup UNION {TokensAt(l) : l \in 7..12}

Unary(op, r) == Parsed(Tree(op, <<r.t>>), r.rest)

Binary(op, l, r) == Parsed(Tree(op, <<l.t, r.t>>), r.rest)

\* the token `tok` closes what r parsed
Expect(r, tok) == IF Peek(r.rest) = tok THEN Parsed(r.t, Tail(r.rest)) ELSE ParseError

RECURSIVE ParseTest(_)
RECURSIVE ParseTestIf(_)
RECURSIVE ParseTestElse(_, _)
RECURSIVE ParseNotTest(_)
RECURSIVE ParseBinary(_, _)
RECURSIVE ParseBinaryRest(_, _)
RECURSIVE ParseFactor(_)
RECURSIVE ParsePower(_)
RECURSIVE ParseTrailers(_)
RECURSIVE ParseAtom(_)

\* test: or_test ['if' or_test 'else' test]
ParseTest(toks) == ParseTestIf(ParseNotTest(toks))

ParseTestIf(r) ==
    IF Peek(r.rest) = "if" THEN ParseTestElse(r, ParseNotTest(Tail(r.rest))) ELSE r

ParseTestElse(t, c) ==
    IF Peek(c.rest) = "else"
    THEN Parsed(Tree("IFELSE", <<c.t, t.t, ParseTest(Tail(c.rest)).t>>),
                ParseTest(Tail(c.rest)).rest)
    ELSE ParseError

\* not_test: 'not' not_test | comparison, a comparison without operators being
\* an expr
ParseNotTest(toks) ==
    IF Peek(toks) = "not" THEN Unary("NOT", ParseNotTest(Tail(toks)))
    ELSE ParseBinary(toks, 7)

\* the left-associative levels from `level` up: operand (operator operand)*,
\* the right operand of an operator taken from the levels above its own
ParseBinary(toks, level) == ParseBinaryRest(ParseFactor(toks), level)

ParseBinaryRest(l, level) ==
    IF Peek(l.rest) \in BinaryTokens /\ LevelOf(Peek(l.rest)) >= level
    THEN ParseBinaryRest(Binary(BinaryOpOf(Peek(l.rest)), l,
                                ParseBinary(Tail(l.rest), LevelOf(Peek(l.rest)) + 1)), level)
    ELSE l

\* factor: ('+'|'-'|'~') factor | power
ParseFactor(toks) ==
    IF Peek(toks) \in {"+", "-", "~"}
    THEN Unary(UnaryOpOf(Peek(toks)), ParseFactor(Tail(toks)))
    ELSE ParsePower(ParseTrailers(ParseAtom(toks)))

\* power: atom_expr ['**' factor]
ParsePower(b) ==
    IF Peek(b.rest) = "**" THEN Binary("POWER", b, ParseFactor(Tail(b.rest))) ELSE b

\* atom_expr: atom trailer*, a trailer being '[' test ']'
ParseTrailers(a) ==
    IF Peek(a.rest) = "["
    THEN ParseTrailers(Expect(Binary("SUBSCR", a, ParseTest(Tail(a.rest))), "]"))
    ELSE a

\* atom: '(' test ')' | NAME | NUMBER
ParseAtom(toks) ==
    IF Peek(toks) = "(" THEN Expect(ParseTest(Tail(toks)), ")")
    ELSE IF Peek(toks) \in Reserved THEN ParseError
    ELSE Parsed(Tree(toks[1], <<>>), Tail(toks))

\* the tree of a whole text
Parse(toks) ==
    IF ParseTest(toks).rest = <<>> THEN ParseTest(toks).t ELSE Tree("<error>", <<>>)

\* an expression object on its own, before it is rendered
StartExpr(e) ==
    /\ code = [expr |-> e]
    /\ pc = "expr"
    /\ cursor = NoneAddr
    /\ dec = NoDec
    /\ world = NewWorld
    /\ out = NoOut

InitExpr ==
    \E outer \in ExprOps : \E inner \in [1..Arity(outer) -> {"leaf"} \cup ExprOps] :
        \E lit \in ExprLiterals :
            /\ Cardinality({i \in 1..Arity(outer) : inner[i] # "leaf"}) <= MaxInner
            /\ StartExpr(Expr(outer, inner, lit))

\* PyExpr.__str__ of the expression
PyExpr__str__ ==
    /\ pc = "expr"
    /\ out' = [out EXCEPT !.lines = <<Line(0, Str(code.expr))>>]
    /\ pc' = "shown"
    /\ UNCHANGED <<code, cursor, dec, world>>

NextExpr == PyExpr__str__

SpecExpr == InitExpr /\ [][NextExpr]_vars

(***************************************************************************)
(* C14: the rendering of an expression tree is unambiguous.                *)
(***************************************************************************)
\* C14: grouping the rendered text of an expression by the precedence and
\* associativity of the language gives back the tree that was rendered
C14_GroupsBack ==
    pc = "shown" => Parse(Lex(out.lines[1].text)) = Shape(code.expr)

\* the left-nested power (a ** b) ** d is rendered a**b**d
C14_LeftNestedPower ==
    /\ pc = "shown"
    /\ Shape(code.expr) =
         Tree("POWER", <<Tree("POWER", <<Tree("a", <<>>), Tree("b", <<>>)>>),
                         Tree("d", <<>>)>>)
    /\ out.lines[1].text = <<"a", "**", "b", "**", "d">>
(***************************************************************************)
(* Declarations: the functions whose body is at most MaxDecl statements    *)
(* that store, load or delete a global or a cell or free variable.         *)
(***************************************************************************)
DeclNames == <<"g", "h">>

\* co_varnames, co_cellvars and co_freevars of the functions
DeclVarnames == {<<>>, <<"v">>}

DeclCellvars == {<<>>, <<"c">>}

DeclFreevars == {<<>>, <<"n">>, <<"n", "m">>, <<"n", "self">>, <<"__class__", "n">>}

\* the statements over nd cell and free variables: g = None, the expression g,
\* del g, and the same for a variable of derefnames
DeclStatements(nd) ==
    {<<L("LOAD_CONST", 0), I("STORE_GLOBAL", k)>> : k \in 0..1}
      \cup {<<L("LOAD_GLOBAL", k), I("POP_TOP", 0)>> : k \in 0..1}
      \cup {<<L("DELETE_GLOBAL", 0)>>}
      \cup {<<L("LOAD_CONST", 0), I("STORE_DEREF", i)>> : i \in 0..(nd - 1)}
      \cup {<<L("LOAD_DEREF", i), I("POP_TOP", 0)>> : i \in 0..(nd - 1)}
      \cup {<<L("DELETE_DEREF", i)>> : i \in {nd - 1} \ {-1}}

RECURSIVE Concat(_)
Concat(blocks) == IF blocks = <<>> THEN <<>> ELSE blocks[1] \o Concat(Tail(blocks))

\* the code object of a function nested in a function that has the local h:
\* its creator sends the names of its free variables (MAKE_FUNCTION with flag
\* 8), which DefStatement.__init__ stores in Code.annotations
DeclCode(block, varnames, cellvars, freevars) ==
    [ModuleCode(block, DeclNames, 0) EXCEPT
        !.name = "f", !.varnames = varnames, !.parent_names = {"h"},
        !.co_cellvars = cellvars, !.co_freevars = freevars, !.annotations = freevars]

InitDecl ==
    \E varnames \in DeclVarnames : \E cellvars \in DeclCellvars :
        \E freevars \in DeclFreevars : \E n \in 1..MaxDecl :
            \E body \in [1..n -> DeclStatements(Len(cellvars) + Len(freevars))] :
                Start(DeclCode(Concat(body), varnames, cellvars, freevars))

Run_STORE_GLOBAL == RunStep({"STORE_GLOBAL"})

Run_DELETE_GLOBAL == RunStep({"DELETE_GLOBAL"})

Run_LOAD_DEREF == RunStep({"LOAD_DEREF"})

Run_STORE_DEREF == RunStep({"STORE_DEREF"})

Run_DELETE_DEREF == RunStep({"DELETE_DEREF"})

NextDecl ==
    \/ Code__init__
    \/ get_suite
    \/ Run_LOAD_CONST
    \/ Run_LOAD_GLOBAL
    \/ Run_LOAD_DEREF
    \/ Run_POP_TOP
    \/ Run_STORE_GLOBAL
    \/ Run_STORE_DEREF
    \/ Run_DELETE_GLOBAL
    \/ Run_DELETE_DEREF
    \/ Run_RETURN_VALUE
    \/ get_suite_return
    \/ Display

SpecDecl == InitDecl /\ [][NextDecl]_vars

(***************************************************************************)
(* C15: the declarations come first in the suite get_suite returns.        *)
(***************************************************************************)
RECURSIVE FirstOccurrences(_, _)
\* the elements of seq that are not in `seen`, each once, in the order of their
\* first occurrence
FirstOccurrences(seq, seen) ==
    IF seq = <<>> THEN <<>>
    ELSE IF seq[1] \in seen THEN FirstOccurrences(Tail(seq), seen)
    ELSE <<seq[1]>> \o FirstOccurrences(Tail(seq), seen \cup {seq[1]})

\* the instruction at index a declares its name global: a store to a global,
\* or a load of a global that is a local of the enclosing function
DeclaresGlobal(c, a) ==
    \/ opcode(c, a) = "STORE_GLOBAL"
    \/ opcode(c, a) = "LOAD_GLOBAL" /\ c.names[oparg(c, a) + 1] \in c.parent_names

\* the instruction at index a declares its name nonlocal: a store to or a
\* deletion of a free variable
DeclaresNonlocal(c, a) ==
    /\ opcode(c, a) \in {"STORE_DEREF", "DELETE_DEREF"}
    /\ oparg(c, a) >= Len(c.co_cellvars)

\* the names the instructions of c declare, in the order of the stream
DeclaredGlobals(c) ==
    FirstOccurrences(
        [i \in 1..Len(SelectSeq([a \in 1..NumInstr(c) |-> a - 1],
                                LAMBDA a : DeclaresGlobal(c, a))) |->
            c.names[oparg(c, SelectSeq([a \in 1..NumInstr(c) |-> a - 1],
                                       LAMBDA a : DeclaresGlobal(c, a))[i]) + 1]], {})

DeclaredNonlocals(c) ==
    FirstOccurrences(
        [i \in 1..Len(SelectSeq([a \in 1..NumInstr(c) |-> a - 1],
                                LAMBDA a : DeclaresNonlocal(c, a))) |->
            (c.co_cellvars \o c.co_freevars)[
                oparg(c, SelectSeq([a \in 1..NumInstr(c) |-> a - 1],
                                   LAMBDA a : DeclaresNonlocal(c, a))[i]) + 1]], {})

\* the statement `keyword n1, n2, ...` when names is not empty
DeclarationOf(keyword, names) ==
    IF names = <<>> THEN <<>>
    ELSE <<SimpleStatement(NoneAddr,
              <<keyword>> \o Join([i \in 1..Len(names) |-> <<names[i]>>], <<",">>))>>

\* the free variables of c that no instruction of c loads, stores, deletes or
\* passes on, but for self and for the names that start with two underscores
UnusedFreevars(c) ==
    SelectSeq(c.co_freevars,
              LAMBDA n : /\ n \notin {"self", "__class__"}
                         /\ \A a \in 0..(NumInstr(c) - 1) :
                               opcode(c, a) \in DerefOps
                                 => (c.co_cellvars \o c.co_freevars)[oparg(c, a) + 1] # n)

\* one statement `v:n#Inserted by decompiler ...` for each unused free
\* variable n of a function whose first local variable is v
InsertedFor(c) ==
    IF c.varnames = <<>> THEN <<>>
    ELSE [i \in 1..Len(UnusedFreevars(c)) |->
            SimpleStatement(NoneAddr,
                <<c.varnames[1], ":", UnusedFreevars(c)[i],
                  "#Inserted by decompiler to adjust code flags. Remove this line.">>)]

\* C15: the suite get_suite returns is the global statement when a name was
\* declared global, the nonlocal statement when a name was declared nonlocal,
\* each listing every declared name once in the order of the first
\* declarations, then the statements of the decompiled body in their order
C15_DeclarationsThenBody ==
    pc = "done" =>
        out.suite.statements =
            DeclarationOf("global", DeclaredGlobals(code))
              \o DeclarationOf("nonlocal", DeclaredNonlocals(code))
              \o dec.suite.statements

\* C15 as amended: between the declarations and the body come the statements
\* inserted for the unused free variables of the function
C15_DeclarationsInsertedThenBody ==
    pc = "done" =>
        /\ out.suite.statements =
             DeclarationOf("global", DeclaredGlobals(code))
               \o DeclarationOf("nonlocal", DeclaredNonlocals(code))
               \o InsertedFor(code)
               \o dec.suite.statements
        /\ (DeclaredGlobals(code) = <<>> /\ DeclaredNonlocals(code) = <<>>
              /\ InsertedFor(code) = <<>> => out.suite = dec.suite)

\* g is declared global and n nonlocal, m is an unused free variable: global g,
\* nonlocal n, the inserted statement, then the two statements of the body
C15_Witness ==
    /\ pc = "done"
    /\ code.co_freevars = <<"n", "m">>
    /\ Len(out.suite.statements) = 5
    /\ out.suite.statements[1].val = <<"global", "g">>
    /\ out.suite.statements[2].val = <<"nonlocal", "n">>
    /\ out.suite.statements[3].val =
         <<"v", ":", "m", "#Inserted by decompiler to adjust code flags. Remove this line.">>
    /\ SubSeq(out.suite.statements, 4, 5) = dec.suite.statements
(***************************************************************************)
(* The round trip of the usage docstring: decompile, compile the text,     *)
(* compare_codeobjs.  compile is CPython's: for a module of expression     *)
(* statements over names and unary and binary operators it emits the       *)
(* operands left to right and then the operator (compiler_visit_expr),     *)
(* POP_TOP after each statement, and the return of None.                   *)
(***************************************************************************)
Emit(op, sym) == [op |-> op, sym |-> sym]

RECURSIVE CompileExpr(_)
\* the instructions of an expression tree, the names still symbolic
CompileExpr(t) ==
    IF t[2] = <<>> THEN <<Emit("LOAD_NAME", t[1])>>
    ELSE IF t[1] \in UnaryOps /\ Len(t[2]) = 1
    THEN CompileExpr(t[2][1]) \o <<Emit(UnaryOpcode(t[1]), "")>>
    ELSE IF t[1] \in BinaryOps /\ Len(t[2]) = 2
    THEN CompileExpr(t[2][1]) \o CompileExpr(t[2][2]) \o <<Emit(BinaryOpcode(t[1]), "")>>
    ELSE <<Emit("<unsupported>", "")>>

\* the instructions of the expression statements `trees`
CompileStatements(trees) ==
    Concat([i \in 1..Len(trees) |-> CompileExpr(trees[i]) \o <<Emit("POP_TOP", "")>>])

\* co_names: the names in the order of their first use
NamesOf(emitted) ==
    FirstOccurrences([i \in 1..Len(SelectSeq(emitted, LAMBDA e : e.op = "LOAD_NAME")) |->
                         SelectSeq(emitted, LAMBDA e : e.op = "LOAD_NAME")[i].sym], {})

IndexOf(x, seq) == CHOOSE i \in 1..Len(seq) : seq[i] = x

\* the code object compile() returns for a module of expression statements,
\* one statement on each line
CompileModule(trees) ==
    ModuleCode([i \in 1..Len(CompileStatements(trees)) |->
                   B(i = 1 \/ CompileStatements(trees)[IF i = 1 THEN 1 ELSE i - 1].op = "POP_TOP",
                     CompileStatements(trees)[i].op,
                     IF CompileStatements(trees)[i].op = "LOAD_NAME"
                     THEN IndexOf(CompileStatements(trees)[i].sym,
                                  NamesOf(CompileStatements(trees))) - 1
                     ELSE 0)],
               NamesOf(CompileStatements(trees)), 0)

\* compile(src_code, ...) of the rendered lines
compile(lines) == CompileModule([i \in 1..Len(lines) |-> Parse(Lex(lines[i].text))])

\* the opcodes below HAVE_ARGUMENT among those of the modelled streams
NoArgumentOps ==
    UnaryOpcodes \cup BinaryOpcodes
      \cup {"POP_TOP", "ROT_TWO", "ROT_THREE", "DUP_TOP", "NOP", "GET_ITER", "BREAK_LOOP",
            "WITH_CLEANUP_START", "WITH_CLEANUP_FINISH", "RETURN_VALUE", "POP_BLOCK",
            "END_FINALLY", "POP_EXCEPT"}

\* compare_codeobjs: the co_names part
NamesIssues(e, t) ==
    IF Len(t.names) # Len(e.names) THEN <<"Differing number of global names">>
    ELSE [i \in 1..Len(SelectSeq([j \in 1..Len(e.names) |-> j],
                                 LAMBDA j : e.names[j] # t.names[j])) |-> "Global name"]

\* compare_codeobjs: is_identical after the loop over the instructions
is_identical(e, t) ==
    /\ Len(e.instr_seq) = Len(t.instr_seq)
    /\ \A i \in 1..Len(e.instr_seq) :
          /\ e.instr_seq[i].op = t.instr_seq[i].op
          /\ (e.instr_seq[i].op \notin NoArgumentOps /\ e.instr_seq[i].op # "LOAD_CONST"
                => e.instr_seq[i].arg = t.instr_seq[i].arg)

\* compare_codeobjs: pairs_e[i] and pairs_t[j], as sets
pairs_e(e, t, i) ==
    {t.instr_seq[k].arg : k \in {k \in 1..Len(e.instr_seq) :
        e.instr_seq[k].op = "LOAD_CONST" /\ e.instr_seq[k].arg = i}}

pairs_t(e, t, j) ==
    {e.instr_seq[k].arg : k \in {k \in 1..Len(e.instr_seq) :
        e.instr_seq[k].op = "LOAD_CONST" /\ t.instr_seq[k].arg = j}}

\* compare_codeobjs: is_matched_consts for constants that are no code objects
is_matched_consts(e, t) ==
    \A i \in 0..(Len(e.consts) - 1) :
        \/ pairs_e(e, t, i) = {}
        \/ \E j \in pairs_e(e, t, i) :
              /\ pairs_e(e, t, i) = {j}
              /\ Cardinality(pairs_t(e, t, j)) = 1
              /\ e.consts[i + 1] = t.consts[j + 1]

\* compare_codeobjs of two module code objects without nested code objects,
\* the messages by their first words; the empty sequence is the empty string
compare_codeobjs(e, t) ==
    NamesIssues(e, t)
      \o (IF is_identical(e, t)
          THEN (IF is_matched_consts(e, t) THEN <<>> ELSE <<"Constants:">>)
          ELSE (IF Len(t.consts) # Len(e.consts) THEN <<"Differing number of constants">>
                ELSE IF e.consts # t.consts THEN <<"Constants mismatched:">>
                ELSE <<>>)
                 \o (IF e.instr_seq # t.instr_seq THEN <<"EXPECTED:">> ELSE <<>>))

\* the modules of one expression statement: an operator of unary_ops or
\* binary_ops over names or over at most MaxInner more operators
RoundOps == UnaryOps \cup BinaryOps

InitRound ==
    \E outer \in RoundOps : \E inner \in [1..Arity(outer) -> {"leaf"} \cup RoundOps] :
        /\ Cardinality({i \in 1..Arity(outer) : inner[i] # "leaf"}) <= MaxInner
        /\ Start(CompileModule(<<Shape(Expr(outer, inner, [name |-> "", repr |-> ""]))>>))

Run_BINARY == RunStep(BinaryOpcodes)

Run_UNARY == RunStep(UnaryOpcodes \ {"UNARY_NOT"})

\* the usage docstring: compile the text and compare the two code objects
Recompile ==
    /\ pc = "shown"
    /\ out' = [out EXCEPT !.issues = compare_codeobjs(code, compile(out.lines))]
    /\ pc' = "compared"
    /\ UNCHANGED <<code, cursor, dec, world>>

NextRound ==
    \/ Code__init__
    \/ get_suite
    \/ Run_LOAD_NAME
    \/ Run_UNARY_NOT
    \/ Run_UNARY
    \/ Run_BINARY
    \/ Run_POP_TOP
    \/ Run_LOAD_CONST
    \/ Run_RETURN_VALUE
    \/ get_suite_return
    \/ Display
    \/ Recompile

SpecRound == InitRound /\ [][NextRound]_vars

(***************************************************************************)
(* C16: the round trip.                                                    *)
(***************************************************************************)
\* no line of the text is the statement of a diagnostic
NoPlaceholder(lines) == \A i \in 1..Len(lines) : lines[i].text # PopTopDiagnostic

\* C16: when a module was decompiled without a diagnostic statement,
\* compare_codeobjs of the original and of the recompiled code object returns
\* the empty string
C16_RoundTrip ==
    pc = "compared" /\ NoPlaceholder(out.lines) => out.issues = <<>>

\* the round trip of (a ** b) ** d: the text a**b**d compiles to the
\* instructions of a ** (b ** d)
C16_PowerRegrouped ==
    /\ pc = "compared"
    /\ out.lines = <<Line(0, <<"a", "**", "b", "**", "d">>)>>
    /\ [i \in 1..5 |-> code.instr_seq[i].op] =
         <<"LOAD_NAME", "LOAD_NAME", "BINARY_POWER", "LOAD_NAME", "BINARY_POWER">>
    /\ out.issues = <<"EXPECTED:">>

\* the round trip of a - (d - e) gives back the same code object
C16_SubtractionKept ==
    /\ pc = "compared"
    /\ out.lines = <<Line(0, <<"a", "-", "(", "d", "-", "e", ")">>)>>
    /\ out.issues = <<>>
(***************************************************************************)
(* Modules read from a file: dec_module calls get_suite with               *)
(* look_for_docstring.  The modules have at most MaxDoc statements:        *)
(* __doc__ = 'doc', a = 'doc', __doc__ = a = 'doc', __doc__ = a, del a.     *)
(***************************************************************************)
DocNames == <<"__doc__", "a">>

DocConsts == <<ConstVal("NoneType", "None"), ConstVal("str", "'doc'")>>

DocStatements ==
    {<<L("LOAD_CONST", 1), I("STORE_NAME", 0)>>,
     <<L("LOAD_CONST", 1), I("STORE_NAME", 1)>>,
     <<L("LOAD_CONST", 1), I("DUP_TOP", 0), I("STORE_NAME", 0), I("STORE_NAME", 1)>>,
     <<L("LOAD_NAME", 1), I("STORE_NAME", 0)>>,
     <<L("DELETE_NAME", 1)>>}

DocCode(block) == [ModuleCode(block, DocNames, 0) EXCEPT !.consts = DocConsts]

InitDoc ==
    \E n \in 1..MaxDoc : \E body \in [1..n -> DocStatements] : Start(DocCode(Concat(body)))

\* get_suite: first_stmt is an AssignStatement `__doc__ = value`
IsDocAssignment(h, suite) ==
    /\ suite.statements # <<>>
    /\ Deref(h, suite.statements[1]).k = "AssignStatement"
    /\ Len(Deref(h, suite.statements[1]).chain) = 2
    /\ Fmt(Deref(h, suite.statements[1]).chain[1]) = <<"__doc__">>

\* get_suite(include_declarations=False, look_for_docstring=True) after
\* dec.run() returned, as dec_module calls it: dec.suite[0] becomes a
\* DocString; first_stmt.chain[1].val raises for a value that is no PyConst
dec_module_return ==
    /\ pc = "ran" \/ (pc = "run" /\ ~ Running(dec, cursor))
    /\ IF ~ IsDocAssignment(world.heap, dec.suite)
       THEN /\ dec' = dec
            /\ out' = [out EXCEPT !.suite = dec.suite]
            /\ pc' = "done"
       ELSE IF Deref(world.heap, dec.suite.statements[1]).chain[2].k # "PyConst"
       THEN /\ dec' = dec
            /\ out' = [out EXCEPT !.exc = "AttributeError: 'PyName' object has no attribute 'val'"]
            /\ pc' = "raised"
       ELSE /\ dec' = [dec EXCEPT !.suite.statements[1] =
                          DocString(NoneAddr,
                                    Deref(world.heap, dec.suite.statements[1]).chain[2].val)]
            /\ out' = [out EXCEPT !.suite = dec'.suite]
            /\ pc' = "done"
    /\ UNCHANGED <<code, cursor, world>>

NextDoc ==
    \/ Code__init__
    \/ get_suite
    \/ Run_LOAD_CONST
    \/ Run_LOAD_NAME
    \/ Run_DUP_TOP
    \/ Run_STORE_NAME
    \/ Run_DELETE_NAME
    \/ Run_RETURN_VALUE
    \/ get_suite_return
    \/ dec_module_return
    \/ Display

SpecDoc == InitDoc /\ [][NextDoc]_vars

(***************************************************************************)
(* C17: suites are append-only while they are built.                       *)
(***************************************************************************)
\* the statement object: a reference, or the class and the place it was built at
StatementObject(s) == IF s.k = "Ref" THEN s ELSE <<s.k, s.at>>

\* every statement of suite s is still the statement at its index in suite t
KeepsStatements(s, t) ==
    /\ Len(t.statements) >= Len(s.statements)
    /\ \A i \in 1..Len(s.statements) :
          StatementObject(t.statements[i]) = StatementObject(s.statements[i])

\* C17: from the first pass of run to the return of get_suite, the suite of
\* the decompiler keeps every statement it has, at its index, and never gets
\* shorter
C17_AppendOnly ==
    [][(pc \in {"run", "ran"}) /\ (pc' \in {"run", "ran", "done"})
          => KeepsStatements(dec.suite, dec'.suite)]_vars

\* the AssignStatement of __doc__ = 'doc' was replaced by a DocString
C17_Replaced ==
    /\ pc = "done"
    /\ dec.suite.statements[1].k = "DocString"
    /\ code.instr_seq[2] = Instr("STORE_NAME", 0)
(***************************************************************************)
(* Modules that make a function object from a nested code object:          *)
(* y = [elt for i in it], y = {elt for i in it}, y = (elt for i in it),     *)
(* y = lambda: x and def f(): pass, followed or not by del a.  The nested   *)
(* code object is a constant of the module; MAKE_FUNCTION constructs its    *)
(* Code.                                                                   *)
(***************************************************************************)
CompNames == <<"y", "x", "a", "f">>

\* the element of a comprehension: i, or i + i
CompElements == {<<124, 1>>, <<124, 1, 124, 1, 23, 0>>}

\* the loop of a comprehension after FOR_ITER: STORE_FAST i, the element, the
\* bytes that add it, JUMP_ABSOLUTE back to FOR_ITER
CompLoop(elt, add, back) == <<125, 1>> \o elt \o add \o <<113, back>>

\* co_code of <listcomp>, <setcomp> (build is BUILD_LIST or BUILD_SET, add is
\* LIST_APPEND or SET_ADD) and <genexpr>
CompCode(build, add, elt) ==
    <<build, 0, 124, 0, 93, Len(CompLoop(elt, <<add, 2>>, 4))>>
        \o CompLoop(elt, <<add, 2>>, 4) \o <<83, 0>>

GenExprCode(elt) ==
    <<124, 0, 93, Len(CompLoop(elt, <<86, 0, 1, 0>>, 2))>>
        \o CompLoop(elt, <<86, 0, 1, 0>>, 2) \o <<100, 0, 83, 0>>

\* a code object among the constants of a module
CodeObject(name, co_code, co_names, co_varnames) ==
    [ty |-> "code", repr |-> "<code object " \o name \o ">", co_name |-> name,
     co_code |-> co_code, co_names |-> co_names, co_varnames |-> co_varnames,
     co_consts |-> <<ConstVal("NoneType", "None")>>]

CompCodeObjects ==
    {CodeObject("<listcomp>", CompCode(103, 145, elt), <<>>, <<".0", "i">>) : elt \in CompElements}
    \cup {CodeObject("<setcomp>", CompCode(104, 146, elt), <<>>, <<".0", "i">>) : elt \in CompElements}
    \cup {CodeObject("<genexpr>", GenExprCode(elt), <<>>, <<".0", "i">>) : elt \in CompElements}

\* lambda: x, and the body of def f(): pass
FunctionCodeObjects ==
    {CodeObject("<lambda>", <<116, 0, 83, 0>>, <<"x">>, <<>>),
     CodeObject("f", <<100, 0, 83, 0>>, <<>>, <<>>)}

\* the iterable of a comprehension: x, or x[a]
CompIterables ==
    {<<I("LOAD_NAME", 1)>>,
     <<I("LOAD_NAME", 1), I("LOAD_NAME", 2), I("BINARY_SUBSCR", 0)>>}

\* the statements that follow: none, or del a
CompRest == {<<>>, <<L("DELETE_NAME", 2)>>}

CompConsts(co) == <<ConstVal("NoneType", "None"), co, ConstVal("str", "'" \o co.co_name \o "'")>>

CompModule(co, block) == [ModuleCode(block, CompNames, 0) EXCEPT !.consts = CompConsts(co)]

MakeFunction == <<L("LOAD_CONST", 1), I("LOAD_CONST", 2), I("MAKE_FUNCTION", 0)>>

InitComp ==
    \/ \E co \in CompCodeObjects : \E it \in CompIterables : \E rest \in CompRest :
          Start(CompModule(co, MakeFunction \o it
                     \o <<I("GET_ITER", 0), I("CALL_FUNCTION", 1), I("STORE_NAME", 0)>> \o rest))
    \/ \E co \in FunctionCodeObjects : \E rest \in CompRest :
          Start(CompModule(co, MakeFunction
                     \o <<I("STORE_NAME", IF co.co_name = "f" THEN 3 ELSE 0)>> \o rest))

Run_MAKE_FUNCTION == RunStep({"MAKE_FUNCTION"})

NextComp ==
    \/ Code__init__
    \/ get_suite
    \/ Run_LOAD_CONST
    \/ Run_MAKE_FUNCTION
    \/ Run_LOAD_NAME
    \/ Run_BINARY
    \/ Run_GET_ITER
    \/ Run_CALL_FUNCTION
    \/ Run_STORE_NAME
    \/ Run_DELETE_NAME
    \/ Run_RETURN_VALUE
    \/ get_suite_return

SpecComp == InitComp /\ [][NextComp]_vars

\* the objects of the heap that hold the Code of a nested code object
HoldsCode(obj) == obj.k \in CompClasses \cup {"PyLambda", "DefStatement"}

\* the instruction sequence, the constants and the name tables of a Code are
\* those Code.__init__ made of its code object
AsConstructed(code_) ==
    /\ code_.instr_seq = Code(code_.code_obj).instr_seq
    /\ code_.consts = Code(code_.code_obj).consts
    /\ code_.names = Code(code_.code_obj).names
    /\ code_.varnames = Code(code_.code_obj).varnames

\* C18: every Code object keeps the instruction sequence, the constant pool and
\* the name tables its construction decoded, whatever the handlers and the
\* construction of comprehension nodes do afterwards.
C18_TablesAsConstructed ==
    \A id \in DOMAIN world.heap :
        HoldsCode(world.heap[id]) => AsConstructed(world.heap[id].code)

\* a list comprehension was made and called: the first and the last
\* instruction of its Code are NOP and varnames[0] is the iterable
C18_CompChanged ==
    /\ pc = "done"
    /\ \E id \in DOMAIN world.heap :
          /\ world.heap[id].k = "PyListComp"
          /\ world.heap[id].code.code_obj.co_name = "<listcomp>"
          /\ world.heap[id].code.instr_seq[1].op = "NOP"
          /\ Code(world.heap[id].code.code_obj).instr_seq[1].op = "BUILD_LIST"
          /\ world.heap[id].code.varnames[1].name = "x"
          /\ Code(world.heap[id].code.code_obj).varnames[1].name = ".0"
(***************************************************************************)
(* DELETE_GLOBAL, on the functions that declare names.                     *)
(***************************************************************************)
\* the top-level run loop is about to dispatch an instruction with opcode op
Dispatching(op) == pc = "run" /\ Running(dec, cursor) /\ opcode(code, cursor) = op

\* the statement `del name` closes the suite
EndsWithDel(suite, name) ==
    /\ suite.statements # <<>>
    /\ suite.statements[Len(suite.statements)].k = "SimpleStatement"
    /\ suite.statements[Len(suite.statements)].val = <<"del">> \o Str(name)

\* the number of entries of Code.globals equal to name
GlobalCount(w, name) == Cardinality({i \in 1..Len(w.globals) : PyEq(w.globals[i], name)})

\* C19: the pass that dispatches DELETE_GLOBAL n completes without raising,
\* leaves n exactly once in Code.globals and appends the statement `del n`.
C19_DeleteGlobalDeclares ==
    [][Dispatching("DELETE_GLOBAL") =>
          /\ pc' # "raised"
          /\ GlobalCount(world', CodeName(code, oparg(code, cursor))) = 1
          /\ EndsWithDel(dec'.suite, CodeName(code, oparg(code, cursor)))]_vars

\* DELETE_GLOBAL g was dispatched after STORE_GLOBAL g: the decompilation
\* ended with an AttributeError, g declared by the store only
C19_DeleteGlobalRaised ==
    /\ pc = "raised"
    /\ opcode(code, cursor) = "DELETE_GLOBAL"
    /\ out.exc = "AttributeError: 'SuiteDecompiler' object has no attribute 'declare_global'"
    /\ Len(world.globals) = 1
    /\ Len(dec.suite.statements) = 1
(***************************************************************************)
(* run under scan_for_else: `while a: if b: <arm>`, where POP_JUMP_IF of   *)
(* `if b` is a continue jump and makes d_true, the decompiler of the arm,   *)
(* with scan_for_else.  The arm is at most MaxScan instructions: del s, a   *)
(* jump to the head of the loop or a jump forward, each starting a line     *)
(* (continue, or the jump over an else after pass) or not.                  *)
(***************************************************************************)
ScanAlphabet ==
    {L("DELETE_NAME", 8), L("JUMP_ABSOLUTE", 2), I("JUMP_ABSOLUTE", 2),
     L("JUMP_FORWARD", 0), I("JUMP_FORWARD", 0)}

ScanArms == UNION {[1..n -> ScanAlphabet] : n \in 0..MaxScan}

\* the first instruction of the arm
ArmStart == 5

ScanCode(arm) ==
    ModuleCode(<<L("SETUP_LOOP", 2 * (Len(arm) + 6)), I("LOAD_NAME", 0),
                 I("POP_JUMP_IF_FALSE", 2 * (Len(arm) + 6)),
                 L("LOAD_NAME", 1), I("POP_JUMP_IF_FALSE", 2)>>
                 \o arm \o <<I("JUMP_ABSOLUTE", 2), I("POP_BLOCK", 0)>>,
               WithNames, 0)

InitScan == \E arm \in ScanArms : Start(ScanCode(arm))

\* POP_JUMP_IF of `if b`, reached through get_suite, SETUP_LOOP and the run of
\* the body of the loop: d_true = SuiteDecompiler(next_addr, self.end_addr)
\* with scan_for_else, about to run
d_true ==
    /\ pc = "ready"
    /\ dec' = [SuiteDecompiler(code, ArmStart, jump(code, 2), NewStack)
                  EXCEPT !.scan_for_else = TRUE]
    /\ cursor' = ArmStart
    /\ pc' = "run"
    /\ UNCHANGED <<code, world, out>>

Run_JUMP_ABSOLUTE == RunStep({"JUMP_ABSOLUTE"})

NextScan ==
    \/ Code__init__
    \/ d_true
    \/ Run_DELETE_NAME
    \/ Run_JUMP_ABSOLUTE
    \/ Run_JUMP_FORWARD

SpecScan == InitScan /\ [][NextScan]_vars

\* run is about to dispatch an unconditional jump under scan_for_else
AtJump ==
    /\ pc = "run"
    /\ Running(dec, cursor)
    /\ dec.scan_for_else
    /\ opcode(code, cursor) \in {"JUMP_ABSOLUTE", "JUMP_FORWARD"}

\* run leaves its loop at the instruction, which no handler saw
StopsBefore == pc' = "ran" /\ cursor' = cursor /\ dec' = dec /\ world' = world

\* the handler of the jump ran and the loop goes on at the next instruction
DispatchedOn ==
    /\ pc' = "run"
    /\ cursor' = AddrGetItem(code, cursor, 1)
    /\ Handle(code, dec, world, cursor).d = dec'

\* C20 (as stated): under scan_for_else run stops before a JUMP_ABSOLUTE or
\* JUMP_FORWARD whose address is not in the line map, and dispatches a
\* JUMP_ABSOLUTE or JUMP_FORWARD that starts a source line and goes on.
C20_StopsAtUnalignedJump ==
    [][AtJump => IF InLinemap(code, cursor) THEN DispatchedOn ELSE StopsBefore]_vars

\* C20: under scan_for_else run stops before every JUMP_FORWARD and before a
\* JUMP_ABSOLUTE whose address is not in the line map; a JUMP_ABSOLUTE that
\* starts a source line is dispatched and run goes on.
C20_StopsAtForwardOrUnalignedJump ==
    [][AtJump => IF opcode(code, cursor) = "JUMP_ABSOLUTE" /\ InLinemap(code, cursor)
                 THEN DispatchedOn ELSE StopsBefore]_vars

\* `continue` on a line of its own was dispatched and gave its statement, then
\* run stopped at a JUMP_FORWARD that starts a line
C20_Witness ==
    /\ pc = "ran"
    /\ dec.scan_for_else
    /\ opcode(code, cursor) = "JUMP_FORWARD"
    /\ InLinemap(code, cursor)
    /\ cursor = ArmStart + 1
    /\ opcode(code, ArmStart) = "JUMP_ABSOLUTE"
    /\ InLinemap(code, ArmStart)
    /\ dec.suite.statements = <<SimpleStatement(ArmStart, <<"continue">>)>>
(***************************************************************************)
(* SETUP_LOOP of a loop with an exit test, on the while loops.             *)
(***************************************************************************)
\* the entry (start, end_cond, end) of the loop whose SETUP_LOOP is about to
\* be dispatched has an exit test
AtTestedLoop ==
    /\ Dispatching("SETUP_LOOP")
    /\ world.loops # <<>>
    /\ LoopOf(world, cursor)[2] > 0

\* d_body.run() of the last turn of the loop of SETUP_LOOP: the body from the
\* instruction after SETUP_LOOP to the target of the exit test, under the
\* statement jumps the handler leaves
BodyRun ==
    run(code,
        SuiteDecompiler(code, AddrGetItem(code, cursor, 1),
                        jump(code, LoopOf(world, cursor)[2]), NewStack),
        [world EXCEPT !.statement_jumps = world'.statement_jumps,
                      !.qcjumps = world'.qcjumps])

\* the terminal statement of the body
Terminal == BodyRun.d.suite.statements[Len(BodyRun.d.suite.statements)]

\* the suite ss, its last statement left as it is or rewritten to pass by
\* verify_loop_laststmt
AsVerified(ss) ==
    {ss} \cup {[ss EXCEPT !.statements[Len(ss.statements)] = SetPass(@)] :
                  x \in {y \in {ss} : y.statements # <<>>}}

\* the statements the pass appended to the suite
Appended ==
    SubSeq(dec'.suite.statements, Len(dec.suite.statements) + 1, Len(dec'.suite.statements))

\* one WhileStatement whose condition and body are those of the terminal if
WhileOfTerminalIf ==
    /\ Len(Appended) = 1
    /\ Appended[1].k = "WhileStatement"
    /\ Appended[1].cond = Terminal.cond
    /\ Appended[1].body \in AsVerified(Terminal.true_suite)

\* `while unrecognised:` between the two diagnostic statements
WhileUnrecognised ==
    /\ Len(Appended) = 3
    /\ Appended[1] = SimpleStatement(cursor,
          <<"\"\"\"unpyc3: decompilation error: while condition isnt IfStatement\"\"\"">>)
    /\ Appended[2].k = "WhileStatement"
    /\ Appended[2].cond.k = "PyName"
    /\ Appended[2].cond.name = "unrecognised"
    /\ Appended[3].k = "SimpleStatement"
    /\ Appended[3].val = <<"\"\"\"unpyc3: ------------------------\"\"\"">>

ArmAlphabet == {L("DELETE_NAME", 8), I("LOAD_NAME", 8), L("LOAD_NAME", 8)}

Arms == UNION {[1..n -> ArmAlphabet] : n \in 0..MaxArm}

ArmsTails == {<<>>, <<I("STORE_NAME", 4)>>}

\* compiler_if and compiler_ifexp: the test, the jump to the false arm, the
\* true arm, the jump over the false arm, the false arm
IfElseArms(armT, armF, tail) ==
    <<L("LOAD_NAME", 0), I("POP_JUMP_IF_FALSE", 2 * (Len(armT) + 3))>>
      \o armT \o <<I("JUMP_FORWARD", 2 * Len(armF))>> \o armF \o tail

InitArms ==
    \E armT \in Arms : \E armF \in Arms : \E tail \in ArmsTails :
        Start(ModuleCode(IfElseArms(armT, armF, tail), WithNames, 0))

NextArms ==
    \/ Code__init__
    \/ get_suite
    \/ Run_LOAD_NAME
    \/ Run_POP_JUMP_IF_FALSE
    \/ Run_STORE_NAME
    \/ Run_LOAD_CONST
    \/ Run_RETURN_VALUE
    \/ get_suite_return

SpecArms == InitArms /\ [][NextArms]_vars

\* POP_JUMP_IF is about to be dispatched for a jump that find_jumps made a
\* statement jump: in these streams, the jumps that reach the if-else tail
OnIfElsePath == Dispatching("POP_JUMP_IF_FALSE") /\ InSeq(cursor, world.statement_jumps)

\* the run of an arm executor over the instructions from start up to end
ArmRun(start, end) == run(code, SuiteDecompiler(code, start, end, NewStack), world)

\* d_true runs from the instruction after the jump up to the JUMP_FORWARD
\* before its target, d_false from the target up to the target of that
\* JUMP_FORWARD
TrueArm == ArmRun(AddrGetItem(code, cursor, 1), AddrGetItem(code, jump(code, cursor), -1))

FalseArm ==
    ArmRun(jump(code, cursor), jump(code, AddrGetItem(code, jump(code, cursor), -1)))

\* an arm executor ended with exactly one value and an empty suite
OneValue(r) ==
    r.exc = "" /\ Len(r.d.stack._stack) = 1 /\ r.d.suite.statements = <<>>

\* the pass replaced the condition on the stack by a PyIfElse and appended no
\* statement
PushedIfElse ==
    /\ pc' # "raised"
    /\ dec'.suite = dec.suite
    /\ Len(dec'.stack._stack) = Len(dec.stack._stack)
    /\ \E i \in 1..Len(dec'.stack._stack) :
          /\ dec'.stack._stack[i].k = "PyIfElse"
          /\ dec'.stack._stack[i] \notin {dec.stack._stack[j] : j \in 1..Len(dec.stack._stack)}

\* the pass appended one IfStatement and pushed nothing
AppendedIf ==
    /\ pc' # "raised"
    /\ Len(Appended) = 1
    /\ Appended[1].k = "IfStatement"
    /\ Upto(dec'.suite.statements, Len(dec.suite.statements)) = dec.suite.statements
    /\ Len(dec'.stack._stack) = Len(dec.stack._stack) - 1

\* C22: on the if-else tail of POP_JUMP_IF, when both arm executors end with
\* exactly one value and an empty suite one PyIfElse is pushed and no statement
\* is appended; in every other case exactly one IfStatement is appended and
\* nothing is pushed.
C22_TernaryOrIfStatement ==
    [][OnIfElsePath =>
          IF OneValue(TrueArm) /\ OneValue(FalseArm) THEN PushedIfElse ELSE AppendedIf]_vars

\* `if a: <s; del s> else: <s>`: both arms left a value, the true arm with a
\* statement in its suite, and the pass ended with the AssertionError of the
\* if-else tail
C22_AssertionRaised ==
    /\ pc = "raised"
    /\ cursor = 1
    /\ out.exc = AssertionError
    /\ dec.suite.statements = <<>>
    /\ opcode(code, 2) = "LOAD_NAME"
    /\ opcode(code, 3) = "DELETE_NAME"
    /\ opcode(code, 4) = "JUMP_FORWARD"
    /\ opcode(code, 5) = "LOAD_NAME"
(***************************************************************************)
(* find_else, on the if statements whose tests are `and` / `or` of names.   *)
(***************************************************************************)
\* the end of the suite of the if: nothing; the jump over an else suite and
\* that suite; raise s
ElseEnds ==
    {<<<<>>, <<>>>>,
     <<<<I("JUMP_FORWARD", 2)>>, <<L("DELETE_NAME", 9)>>>>,
     <<<<L("LOAD_NAME", 8), I("RAISE_VARARGS", 1)>>, <<>>>>}

\* `if <n names joined by and / or>: <suite> [else: del t]`
ElseCode(n, isor, negs, suite, end) ==
    ModuleCode(BoolTests(1, n, isor, negs, suite \o end[1]) \o suite \o end[1] \o end[2],
               WithNames, 0)

InitElse ==
    \E n \in 1..MaxBool : \E isor \in BOOLEAN : \E negs \in [1..n -> BOOLEAN] :
      \E suite \in BoolBodies : \E end \in ElseEnds :
        Start(ElseCode(n, isor, negs, suite, end))

NextElse == Code__init__

SpecElse == InitElse /\ [][NextElse]_vars

\* the conditional jumps whose target comes just after an unconditional jump,
\* a return or a raise
JumpsPastAnEnd(c) ==
    {a \in 0..(NumInstr(c) - 1) :
        /\ opcode(c, a) \in pop_jump_if_opcodes
        /\ jump(c, a) # NoneAddr
        /\ opcode(c, AddrGetItem(c, jump(c, a), -1))
              \in {"JUMP_FORWARD", "JUMP_ABSOLUTE", "RETURN_VALUE", "RAISE_VARARGS"}}

\* C23: after find_else every conditional jump whose target comes just after
\* an unconditional jump, a return or a raise is in else_jumps, each of several
\* jumps to one target included.
C23_EveryElseJumpFound ==
    pc \in {"ready", "run", "ran", "done", "shown"} => JumpsPastAnEnd(code) \subseteq world.else_jumps

\* two conditional jumps share the target after a JUMP_FORWARD and find_else
\* kept the second only
C23_FirstOfTwoLost ==
    /\ pc = "ready"
    /\ \E a, b \in JumpsPastAnEnd(code) :
          /\ a < b
          /\ jump(code, a) = jump(code, b)
          /\ opcode(code, AddrGetItem(code, jump(code, a), -1)) = "JUMP_FORWARD"
          /\ a \notin world.else_jumps
          /\ b \in world.else_jumps

(***************************************************************************)
(* SPyNot on the trees of names, not, and, or.                             *)
(***************************************************************************)
NotAtoms == {"a", "b"}

RECURSIVE NotTrees(_)
\* the trees with exactly n operators; the id of a node is the number of
\* operators of its tree
NotTrees(n) ==
    IF n = 0 THEN {PyName(MkId("expr", 0), name) : name \in NotAtoms}
    ELSE {PyNot(MkId("expr", n), t) : t \in NotTrees(n - 1)}
         \cup UNION {UNION {{BoolMaker(cls, MkId("expr", n), l, r, flag) :
                               cls \in {"PyBooleanAnd", "PyBooleanOr"}, flag \in BOOLEAN} :
                            l \in NotTrees(m), r \in NotTrees(n - 1 - m)} : m \in 0..(n - 1)}

RECURSIVE Truth(_, _)
\* bool(e) when bool(name) is t[name] and a comparison by op has the value t[op]
Truth(e, t) ==
    IF e.k = "PyName" THEN t[e.name]
    ELSE IF e.k = "PyNot" THEN ~ Truth(e.operand, t)
    ELSE IF e.k = "PyCompare" THEN t[e.complist[2].s]
    ELSE IF e.k = "PyBooleanAnd" THEN Truth(e.left, t) /\ Truth(e.right, t)
    ELSE Truth(e.left, t) \/ Truth(e.right, t)

InitNot ==
    \E n \in 0..MaxOps : \E e \in NotTrees(n) : \E t \in [NotAtoms -> BOOLEAN] :
        /\ code = [expr |-> e, truth |-> t, negated |-> e]
        /\ pc = "expr"
        /\ cursor = NoneAddr
        /\ dec = NoDec
        /\ world = NewWorld
        /\ out = NoOut

\* SPyNot(o) of the tree
SPyNot_call ==
    /\ pc = "expr"
    /\ code' = [code EXCEPT !.negated = SPyNot(code.expr, MkId("SPyNot", 0))]
    /\ pc' = "negated"
    /\ UNCHANGED <<cursor, dec, world, out>>

NextNot == SPyNot_call

SpecNot == InitNot /\ [][NextNot]_vars

\* the case of SPyNot the tree falls in
Collides(o) == o.k \in {"PyBooleanAnd", "PyBooleanOr"} /\ o.allow_collision
Swapped(k) == IF k = "PyBooleanAnd" THEN "PyBooleanOr" ELSE "PyBooleanAnd"

\* C24: for every tree of names, not, and, or and every truth assignment,
\* SPyNot(o) has the truth value of `not o`; it is the operand when o is a
\* not, the node of the other operator over the SPyNot of both sides when o
\* is an and / or with allow_collision set, and a single not around o
\* otherwise.
C24_SPyNotNegates ==
    pc = "negated" =>
        /\ Truth(code.negated, code.truth) = ~ Truth(code.expr, code.truth)
        /\ code.expr.k = "PyNot" => code.negated = code.expr.operand
        /\ Collides(code.expr) =>
               /\ code.negated.k = Swapped(code.expr.k)
               /\ Truth(code.negated.left, code.truth) = ~ Truth(code.expr.left, code.truth)
               /\ Truth(code.negated.right, code.truth) = ~ Truth(code.expr.right, code.truth)
        /\ (code.expr.k # "PyNot" /\ ~ Collides(code.expr)) =>
               (code.negated.k = "PyNot" /\ code.negated.operand = code.expr)

\* an `and` with allow_collision set whose sides are a not and a name: the
\* three cases in one call
C24_Witness ==
    /\ pc = "negated"
    /\ code.expr.k = "PyBooleanAnd" /\ code.expr.allow_collision
    /\ code.expr.left.k = "PyNot"
    /\ code.expr.right.k = "PyName"
    /\ code.negated.k = "PyBooleanOr"
    /\ code.negated.left = code.expr.left.operand
    /\ code.negated.right.k = "PyNot"
    /\ Truth(code.expr, code.truth)

(***************************************************************************)
(* Chained assignment: one value, k targets.                               *)
(***************************************************************************)
ChainValues == {L("LOAD_NAME", 0), L("LOAD_CONST", 0)}

\* the names x, y of WithNames
ChainTargets == {4, 5}

\* d1 = ... = dk = value: with the copies made before the first store, or each
\* copy made before its store as the compiler does
ChainBlock(value, dests, stacked) ==
    LET k == Len(dests)
    IN  IF stacked
        THEN <<value>> \o [i \in 1..(k - 1) |-> I("DUP_TOP", 0)]
                       \o [i \in 1..k |-> I("STORE_NAME", dests[i])]
        ELSE <<value>> \o [i \in 1..(2 * k - 1) |->
                              IF i % 2 = 1 /\ i < 2 * k - 1 THEN I("DUP_TOP", 0)
                              ELSE I("STORE_NAME", dests[(i + 1) \div 2])]

ChainCode(value, dests, stacked, before) ==
    ModuleCode((IF before THEN <<L("DELETE_NAME", 8)>> ELSE <<>>)
                   \o ChainBlock(value, dests, stacked) \o <<L("DELETE_NAME", 9)>>,
               WithNames, 0)

InitChain ==
    \E k \in 1..MaxChain : \E dests \in [1..k -> ChainTargets] : \E value \in ChainValues :
      \E stacked \in BOOLEAN : \E before \in BOOLEAN :
        Start(ChainCode(value, dests, stacked, before))

NextChain ==
    \/ Code__init__
    \/ get_suite
    \/ Run_LOAD_NAME
    \/ Run_LOAD_CONST
    \/ Run_DUP_TOP
    \/ Run_STORE_NAME
    \/ Run_DELETE_NAME
    \/ Run_RETURN_VALUE
    \/ get_suite_return

SpecChain == InitChain /\ [][NextChain]_vars

\* the value a store is about to pop
Top(s) == s._stack[Len(s._stack)]

\* the targets of the STORE_NAME instructions of the stream up to index last,
\* in order
RECURSIVE StoredNames(_, _)
StoredNames(c, last) ==
    IF last < 0 THEN <<>>
    ELSE IF opcode(c, last) = "STORE_NAME"
    THEN Append(StoredNames(c, last - 1), CodeName(c, oparg(c, last)))
    ELSE StoredNames(c, last - 1)

\* one pass of run on a store: while a copy of the value stays on the stack
\* only the pending chain grows; the store that pops the last copy appends one
\* AssignStatement of the pending targets, its own target and the value, and
\* empties the pending chain
StorePass ==
    (Dispatching("STORE_NAME") /\ dec.stack._stack # <<>>) =>
        LET dest == CodeName(code, oparg(code, cursor))
        IN  /\ pc' \in {"run", "ran"}
            /\ IF get_count(dec.stack, Top(dec.stack)) > 1
               THEN /\ dec'.suite = dec.suite
                    /\ dec'.assignment_chain = Append(dec.assignment_chain, dest)
               ELSE /\ dec'.suite.statements
                         = Append(dec.suite.statements,
                                  AssignStatement(cursor,
                                      Append(Append(dec.assignment_chain, dest),
                                             Top(dec.stack))))
                    /\ dec'.assignment_chain = <<>>

\* the suite of the whole stream holds one AssignStatement, at the last store,
\* with the chain [d1, ..., dk, value]
OneAssignment ==
    pc = "done" =>
        LET assigns == {i \in 1..Len(out.suite.statements) :
                            out.suite.statements[i].k = "AssignStatement"}
            dests == StoredNames(code, NumInstr(code) - 1)
        IN  /\ Cardinality(assigns) = 1
            /\ \A i \in assigns :
                 /\ Len(out.suite.statements[i].chain) = Len(dests) + 1
                 /\ SubSeq(out.suite.statements[i].chain, 1, Len(dests)) = dests
                 /\ out.suite.statements[i].chain[Len(dests) + 1].k \in {"PyName", "PyConst"}
                 /\ opcode(code, out.suite.statements[i].at + 1) = "DELETE_NAME"
            /\ dec.assignment_chain = <<>>

\* C25: with k copies of one value on the stack and k stores to d1..dk, the
\* first k-1 stores append nothing and only extend the pending chain, the k-th
\* appends exactly one AssignStatement with the chain [d1, ..., dk, value], and
\* the pending chain is empty afterwards.
C25_WriteOnPop == [][StorePass]_vars /\ [](OneAssignment)

\* x = y = x = <value> returned by get_suite, with three copies stacked
C25_Witness ==
    /\ pc = "done"
    /\ \E a \in 0..(NumInstr(code) - 1) :
         /\ opcode(code, a) = "DUP_TOP" /\ opcode(code, a + 1) = "DUP_TOP"
         /\ opcode(code, a + 2) = "STORE_NAME"
    /\ \E i \in 1..Len(out.suite.statements) :
         /\ out.suite.statements[i].k = "AssignStatement"
         /\ Len(out.suite.statements[i].chain) = 4
    /\ dec.assignment_chain = <<>>

(***************************************************************************)
(* push_popjump: one pending entry and a new conditional branch.           *)
(***************************************************************************)
MergeAtoms == {"a", "b", "is", "<"}

MergeName(name) == PyName(MkId("cond", name), name)

MergeCompare(op) == PyCompare(MkId("cond", op), <<MergeName("a"), CmpOp(op), MergeName("b")>>)

\* the conditions of the pending entry and of the new branch
MergeConds ==
    {MergeName("a"), MergeName("b"), PyNot(MkId("cond", "not"), MergeName("a")),
     MergeCompare("is"), MergeCompare("<")}
    \cup {BoolMaker(cls, MkId("cond", cls), MergeName("a"), MergeName("b"), FALSE) :
             cls \in {"PyBooleanAnd", "PyBooleanOr"}}
    \cup {BoolMaker(cls, MkId("cond", cls), PyNot(MkId("cond", "not"), MergeName("a")),
                    MergeCompare("<"), TRUE) :
             cls \in {"PyBooleanAnd", "PyBooleanOr"}}

\* the new branch and its fallthrough
MergeBranch == 3
MergeNext == 4

\* the target of the new branch, and the targets of the pending entry: that
\* target, the fallthrough of the new branch, another instruction
MergeTarget == 6
MergeAddrs == {MergeTarget, MergeNext, 5}

MergeJump(truthiness, addr) ==
    I(IF truthiness THEN "POP_JUMP_IF_TRUE" ELSE "POP_JUMP_IF_FALSE", 2 * addr)

MergeCode(truthiness, addr, jtruthiness) ==
    ModuleCode(<<L("LOAD_NAME", 0), MergeJump(truthiness, addr), I("LOAD_NAME", 1),
                 MergeJump(jtruthiness, MergeTarget), L("DELETE_NAME", 8),
                 L("DELETE_NAME", 9), L("DELETE_NAME", 8)>>,
               WithNames, 0)

\* the executor at the new branch: its condition on the operand stack, the
\* entry of the earlier branch on popjump_stack
InitMerge ==
    \E truthiness \in BOOLEAN : \E jtruthiness \in BOOLEAN : \E addr \in MergeAddrs :
      \E cond \in MergeConds : \E jcond \in MergeConds :
        /\ code = MergeCode(truthiness, addr, jtruthiness)
        /\ pc = "pending"
        /\ cursor = MergeBranch
        /\ dec = [SuiteDecompiler(code, 0, NoneAddr, push(NewStack, jcond))
                     EXCEPT !.popjump_stack = <<PopJump(truthiness, addr, cond, 1)>>]
        /\ world = NewWorld
        /\ out = NoOut

\* cond = self.stack.pop(); self.push_popjump(truthiness, jump_addr, cond, addr)
POP_JUMP_IF_push ==
    /\ pc = "pending"
    /\ dec' = PushPopjump(code, world, Popped(dec, pop1(dec.stack)),
                          opcode(code, cursor) = "POP_JUMP_IF_TRUE",
                          jump(code, cursor), pop1(dec.stack).val, cursor)
    /\ pc' = "merged"
    /\ UNCHANGED <<code, cursor, world, out>>

NextMerge == POP_JUMP_IF_push

SpecMerge == InitMerge /\ [][NextMerge]_vars

\* a branch with the sense truthiness on cond jumps
Jumps(truthiness, cond, t) == Truth(cond, t) = truthiness

\* executing the pending branch and then the new one reaches the target of
\* the new one
Arrives(top, jtruthiness, jcond, jaddr, t) ==
    IF top.addr = jaddr
    THEN Jumps(top.truthiness, top.cond, t) \/ Jumps(jtruthiness, jcond, t)
    ELSE ~ Jumps(top.truthiness, top.cond, t) /\ Jumps(jtruthiness, jcond, t)

\* the push of the new branch: merged with the pending entry when that jumps
\* to the same target or to the fallthrough of the new branch, into one entry
\* whose condition has its truthiness exactly when control arrives at the
\* target; appended otherwise
MergePass ==
    ((pc = "pending") /\ (pc' = "merged")) =>
        LET top == dec.popjump_stack[1]
            jcond == Top(dec.stack)
            jtruthiness == opcode(code, cursor) = "POP_JUMP_IF_TRUE"
            jaddr == jump(code, cursor)
            new == dec'.popjump_stack[Len(dec'.popjump_stack)]
        IN  IF top.addr \in {jaddr, AddrGetItem(code, cursor, 1)}
            THEN /\ Len(dec'.popjump_stack) = 1
                 /\ new.addr = jaddr
                 /\ \A t \in [MergeAtoms -> BOOLEAN] :
                        Jumps(new.truthiness, new.cond, t)
                            <=> Arrives(top, jtruthiness, jcond, jaddr, t)
            ELSE dec'.popjump_stack
                    = <<top, PopJump(jtruthiness, jaddr, jcond, cursor)>>

StackObjects ==
    {PyName(MkId("obj", 1), "a"), PyName(MkId("obj", 2), "a"), PyName(MkId("obj", 3), "b")}

\* the stack, and what the last call returned
StackState(s, returned) ==
    /\ dec' = [dec EXCEPT !.stack = s]
    /\ out' = [out EXCEPT !.lines = returned]

InitStack ==
    /\ code = [instr_seq |-> <<>>]
    /\ pc = "new"
    /\ cursor = NoneAddr
    /\ dec = NoDec
    /\ world = NewWorld
    /\ out = NoOut

\* what a call returned, or the exception it raised
Returned(r, name) ==
    /\ StackState(r.stack, r.vals)
    /\ pc' = IF r.ok THEN name ELSE "raised"
    /\ UNCHANGED <<code, cursor, world>>

Stack_push ==
    /\ pc # "raised"
    /\ Len(dec.stack._stack) < MaxStack
    /\ \E val \in StackObjects :
         Returned([ok |-> TRUE, vals |-> <<>>, stack |-> push(dec.stack, val)], "pushed")

Stack_pop ==
    /\ pc # "raised"
    /\ LET p == pop1(dec.stack)
       IN  Returned([ok |-> p.ok, vals |-> IF p.ok THEN <<p.val>> ELSE <<>>,
                     stack |-> p.stack], "popped")

Stack_pop_count ==
    /\ pc # "raised"
    /\ \E count \in 0..MaxStack : Returned(popn(dec.stack, count), "popped")

Stack_peek ==
    /\ pc # "raised"
    /\ Returned(peek(dec.stack), "peeked")

Stack_peek_count ==
    /\ pc # "raised"
    /\ \E count \in 0..MaxStack : Returned(peekn(dec.stack, count), "peeked")

NextStack ==
    \/ Stack_push
    \/ Stack_pop
    \/ Stack_pop_count
    \/ Stack_peek
    \/ Stack_peek_count

SpecStack == InitStack /\ [][NextStack]_vars

\* the occurrences of the object in the list, by identity
Occurrences(s, obj) == Cardinality({i \in 1..Len(s._stack) : s._stack[i].id = obj.id})

CountsAreOccurrences ==
    pc # "raised" =>
        \A obj \in StackObjects :
            /\ get_count(dec.stack, obj) = Occurrences(dec.stack, obj)
            /\ StackContains(dec.stack, obj) <=> Occurrences(dec.stack, obj) >= 1

PeekChangesNothing == (pc' = "peeked") => (dec'.stack = dec.stack)

\* C27: after any calls of push, pop, pop(n) and peek that do not underflow,
\* get_count(v) is the number of occurrences of v, by identity, in the stack
\* for every object v, so `v in stack` holds exactly when v occurs; peek
\* changes neither the stack nor the counts.
C27_CountsMatchStack == [](CountsAreOccurrences) /\ [][PeekChangesNothing]_vars

\* the same object twice on the stack under an equal one, after a pop
C27_Witness ==
    /\ pc = "popped"
    /\ Len(dec.stack._stack) = 3
    /\ dec.stack._stack[1].id = dec.stack._stack[3].id
    /\ dec.stack._stack[2].id # dec.stack._stack[1].id
    /\ dec.stack._stack[2].name = dec.stack._stack[1].name
    /\ get_count(dec.stack, dec.stack._stack[1]) = 2
    /\ out.lines # <<>>

(***************************************************************************)
(* Loops in a function whose body is `[if z:] if x [or / and y]: <suite>`  *)
(* and a tail: the conditional jumps find_jumps defers to qcjumps, and the *)
(* re-runs of the body that promote them.                                  *)
(***************************************************************************)
QcLoops == {"for", "while", "forever"}

\* the instruction a continue jumps to (FOR_ITER; the test of the while; the
\* body of while True) and the first instruction of the body of
\* `for i in x:` / `while x:` / `while True:`
QcTop(loop) == IF loop = "for" THEN 3 ELSE 1
QcBody(loop) == IF loop = "for" THEN 5 ELSE IF loop = "while" THEN 3 ELSE 1

\* suites of the inner if; two of them have a statement after the continue
QcSuites == {"continue", "continueassign", "continueternary", "return", "assign", "ternary"}

StartsWithContinue(suite) == suite \in {"continue", "continueassign", "continueternary"}
QcTails == {"none", "return", "assign", "assignreturn", "returnvalue", "ternary"}
QcTests == {"name", "or", "and"}

\* the statement at instruction `at`; ternary is g = i if y else z
QcStmt(kind, at, top) ==
    IF kind = "continue" THEN <<L("JUMP_ABSOLUTE", 2 * top)>>
    ELSE IF kind = "return" THEN <<L("LOAD_CONST", 0), I("RETURN_VALUE", 0)>>
    ELSE IF kind = "assign" THEN <<L("LOAD_FAST", 4), I("STORE_GLOBAL", 1)>>
    ELSE IF kind = "continueassign"
    THEN <<L("JUMP_ABSOLUTE", 2 * top), L("LOAD_FAST", 4), I("STORE_GLOBAL", 1)>>
    ELSE IF kind = "returnvalue" THEN <<L("LOAD_FAST", 4), I("RETURN_VALUE", 0)>>
    ELSE IF kind = "assignreturn"
    THEN <<L("LOAD_FAST", 4), I("STORE_GLOBAL", 1), L("LOAD_CONST", 0), I("RETURN_VALUE", 0)>>
    ELSE IF kind = "ternary"
    THEN <<L("LOAD_FAST", 1), I("POP_JUMP_IF_FALSE", 2 * (at + 4)), I("LOAD_FAST", 4),
           I("JUMP_FORWARD", 2), I("LOAD_FAST", 2), I("STORE_GLOBAL", 1)>>
    ELSE IF kind = "continueternary"
    THEN <<L("JUMP_ABSOLUTE", 2 * top),
           L("LOAD_FAST", 1), I("POP_JUMP_IF_FALSE", 2 * (at + 5)), I("LOAD_FAST", 4),
           I("JUMP_FORWARD", 2), I("LOAD_FAST", 2), I("STORE_GLOBAL", 1)>>
    ELSE <<>>

\* the test at instruction `at`: the jumps of a false test go to `after`, the
\* jump of a true first operand of `or` to the suite, or to the top of the
\* loop when the suite starts with continue
QcTest(test, at, suite, after, top) ==
    IF test = "name" THEN <<L("LOAD_FAST", 0), I("POP_JUMP_IF_FALSE", 2 * after)>>
    ELSE IF test = "and"
    THEN <<L("LOAD_FAST", 0), I("POP_JUMP_IF_FALSE", 2 * after),
           I("LOAD_FAST", 1), I("POP_JUMP_IF_FALSE", 2 * after)>>
    ELSE <<L("LOAD_FAST", 0),
           I("POP_JUMP_IF_TRUE",
             2 * (IF StartsWithContinue(suite) THEN top ELSE at + 4)),
           I("LOAD_FAST", 1), I("POP_JUMP_IF_FALSE", 2 * after)>>

QcTestLen(test) == IF test = "name" THEN 2 ELSE 4

\* the inner if at instruction `at`, and the tail; a jump to the closing jump
\* of the loop goes to the top of the loop
QcIf(test, at, suite, tail, top) ==
    LET after == at + QcTestLen(test) + Len(QcStmt(suite, 0, top))
    IN  QcTest(test, at, suite, IF tail = "none" THEN top ELSE after, top)
          \o QcStmt(suite, at + QcTestLen(test), top) \o QcStmt(tail, after, top)

QcLoopBody(outer, test, suite, tail, at, top) ==
    IF outer
    THEN <<L("LOAD_FAST", 2), I("POP_JUMP_IF_FALSE", 2 * top)>>
            \o QcIf(test, at + 2, suite, tail, top)
    ELSE QcIf(test, at, suite, tail, top)

\* compiler_for and compiler_while, as For and While, around the body
QcLoop(loop, body) ==
    IF loop = "for"
    THEN <<L("SETUP_LOOP", 2 * (Len(body) + 6)), I("LOAD_FAST", 0), I("GET_ITER", 0),
           I("FOR_ITER", 2 * (Len(body) + 2)), I("STORE_FAST", 4)>>
           \o body
           \o <<I("JUMP_ABSOLUTE", 2 * QcTop(loop)), I("POP_BLOCK", 0)>>
    ELSE IF loop = "while"
    THEN <<L("SETUP_LOOP", 2 * (Len(body) + 4)), I("LOAD_FAST", 0),
           I("POP_JUMP_IF_FALSE", 2 * (Len(body) + 4))>>
           \o body
           \o <<I("JUMP_ABSOLUTE", 2 * QcTop(loop)), I("POP_BLOCK", 0)>>
    ELSE <<L("SETUP_LOOP", 2 * (Len(body) + 2))>>
           \o body
           \o <<I("JUMP_ABSOLUTE", 2 * QcTop(loop)), I("POP_BLOCK", 0)>>

InitQc ==
    \E loop \in QcLoops : \E outer \in BOOLEAN : \E test \in QcTests :
      \E suite \in QcSuites : \E tail \in QcTails :
        Start(FunctionCode(QcLoop(loop, QcLoopBody(outer, test, suite, tail,
                                                   QcBody(loop), QcTop(loop))), 1))

NextQc ==
    \/ Code__init__
    \/ get_suite
    \/ Run_SETUP_LOOP
    \/ Run_LOAD_FAST
    \/ Run_GET_ITER
    \/ Run_FOR_ITER
    \/ Run_POP_BLOCK
    \/ Run_LOAD_CONST
    \/ Run_RETURN_VALUE
    \/ get_suite_return

SpecQc == InitQc /\ [][NextQc]_vars

\* the analysis has run
AfterAnalysis == pc \in {"ready", "run", "ran", "done"}

\* a pass of run in which verify_loop_laststmt moved an address from qcjumps
\* to statement_jumps
Promotes ==
    /\ pc = "run"
    /\ world.qcjumps # <<>>
    /\ Len(world'.qcjumps) = Len(world.qcjumps) - 1
    /\ Len(world'.statement_jumps) = Len(world.statement_jumps) + 1

\* C28: at every point after the analysis, also after entries of qcjumps were
\* promoted to statement jumps during execution, no address is both in
\* statement_jumps and in ternaryop_jumps.
C28_OneDisposition ==
    AfterAnalysis => \A a \in world.ternaryop_jumps : ~ InSeq(a, world.statement_jumps)

\* a loop with a ternary jump and statement jumps, one of them promoted from
\* qcjumps by a re-run of the body
C28_Witness ==
    /\ pc = "done"
    /\ world.ternaryop_jumps # {}
    /\ world.qcjumps = <<>>
    /\ \E i \in 2..Len(world.statement_jumps) :
         world.statement_jumps[i] < world.statement_jumps[i - 1]

(***************************************************************************)
(* The re-runs of the body of a loop (SETUP_LOOP, FOR_ITER).               *)
(***************************************************************************)
\* the handler of a loop that runs a body: FOR_ITER, or SETUP_LOOP of a loop
\* that is not a for loop
AtLoopBody ==
    \/ Dispatching("FOR_ITER") /\ dec.stack._stack # <<>>
    \/ Dispatching("SETUP_LOOP") /\ LoopOf(world, cursor)[2] >= 0

\* the end of the body of the for loop at the cursor
ForEndBody ==
    IF opcode(code, jump(code, cursor)) # "POP_BLOCK"
    THEN AddrGetItem(code, jump(code, cursor), -1) ELSE jump(code, cursor)

\* d_body.run() under the lists the handler leaves
ForBodyRun ==
    run(code,
        SuiteDecompiler(code, AddrGetItem(code, cursor, 1), ForEndBody,
                        push(NewStack, Ref("ForStatement", MkId("FOR_ITER", cursor)))),
        world')

\* the handler moved the first n entries it found in qcjumps to the end of
\* statement_jumps, and added nothing to qcjumps
MovedFromQcjumps(n) ==
    /\ Len(world'.qcjumps) = Len(world.qcjumps) - n
    /\ Len(world'.statement_jumps) = Len(world.statement_jumps) + n
    /\ Upto(world'.statement_jumps, Len(world.statement_jumps)) = world.statement_jumps
    /\ \A i \in 1..Len(world'.qcjumps) : InSeq(world'.qcjumps[i], world.qcjumps)
    /\ \A i \in (Len(world.statement_jumps) + 1)..Len(world'.statement_jumps) :
         /\ InSeq(world'.statement_jumps[i], world.qcjumps)
         /\ ~ InSeq(world'.statement_jumps[i], world'.qcjumps)

\* the loop statement the handler appended
LoopAppended ==
    \E i \in 1..Len(Appended) :
        \/ Appended[i].k = "WhileStatement"
        \/ Appended[i] = Ref("ForStatement", MkId("FOR_ITER", cursor))

\* the body of the appended for statement is the suite of a run of the body
\* that verify_loop_laststmt accepts: no further re-run is due
ForBodyVerified ==
    Dispatching("FOR_ITER") =>
        /\ ForBodyRun.exc = ""
        /\ LET v == verify_loop_laststmt(code, ForBodyRun.d, ForBodyRun.w,
                                         ForBodyRun.d.suite,
                                         AddrGetItem(code, cursor, 1), ForEndBody)
           IN  /\ v.ok
               /\ v.w.qcjumps = world'.qcjumps
               /\ world'.heap[MkId("FOR_ITER", cursor)].body = v.ss

FindAlphabet(n, i) ==
    {I("LOAD_NAME", 0), I("POP_TOP", 0), I("POP_BLOCK", 0), L("LOAD_NAME", 1)}
      \cup {I("SETUP_LOOP", 2 * k) : k \in 0..(n - i)}
      \cup {I("JUMP_FORWARD", 2 * k) : k \in 0..(n - i)}
      \cup {I("JUMP_ABSOLUTE", 2 * t) : t \in 0..(n + 1)}
      \cup {I("POP_JUMP_IF_FALSE", 2 * t) : t \in 0..(n + 1)}
      \cup {I("POP_JUMP_IF_TRUE", 2 * t) : t \in 0..(n + 1)}

\* the indices of block b that hold an instruction with a target
Targeted(b) == {i \in 1..Len(b) : b[i].op \in hasjrel \cup hasjabs}

FindBlocks(n) == {b \in [1..n -> UNION {FindAlphabet(n, i) : i \in 0..(n - 1)}] :
                    /\ \A i \in 1..n : b[i] \in FindAlphabet(n, i - 1)
                    /\ Cardinality(Targeted(b)) <= 2}

InitFind ==
    \/ \E n \in 1..MaxFind : \E b \in FindBlocks(n) : Start(ModuleCode(b, JumpNames, 0))
    \/ InitQc
    \/ InitWhile
    \/ InitFor
    \/ InitBool

\* Code.__init__ up to the loop of find_jumps: find_else, the line map, i = 0
find_else_call ==
    /\ pc = "init"
    /\ IF find_else_raises(code, 0) # ""
       THEN /\ pc' = "raised"
            /\ out' = [out EXCEPT !.exc = find_else_raises(code, 0)]
            /\ UNCHANGED <<world, cursor>>
       ELSE IF BadJump(code)
       THEN /\ pc' = "raised"
            /\ out' = [out EXCEPT !.exc = "KeyError"]
            /\ UNCHANGED <<world, cursor>>
       ELSE /\ pc' = "analysing"
            /\ world' = [world EXCEPT !.else_jumps = find_else(code)]
            /\ cursor' = 0
            /\ out' = out
    /\ UNCHANGED <<code, dec>>

\* one iteration of `while i < len(self.instr_seq)`, `i = i + 1` included
find_jumps_iteration ==
    /\ pc = "analysing"
    /\ cursor < NumInstr(code)
    /\ LET r == find_jumps_at(code, world, cursor)
       IN  /\ world' = r.w
           /\ IF r.w.exc # ""
              THEN /\ pc' = "raised"
                   /\ out' = [out EXCEPT !.exc = r.w.exc]
                   /\ cursor' = cursor
              ELSE /\ pc' = "analysing"
                   /\ out' = out
                   /\ cursor' = r.i + 1
    /\ UNCHANGED <<code, dec>>

\* the loop of find_jumps ends; the rest of Code.__init__
find_jumps_return ==
    /\ pc = "analysing"
    /\ cursor >= NumInstr(code)
    /\ IF implicit_continuation_raises(code)
       THEN /\ pc' = "raised"
            /\ out' = [out EXCEPT !.exc = "TypeError: cannot unpack non-iterable NoneType object"]
       ELSE /\ pc' = "ready"
            /\ out' = out
    /\ UNCHANGED <<code, cursor, dec, world>>

NextFind ==
    \/ find_else_call
    \/ find_jumps_iteration
    \/ find_jumps_return

SpecFind == InitFind /\ [][NextFind]_vars

\* the next iteration starts after the one that ends
Advances == (pc = "analysing" /\ pc' = "analysing") => (cursor' > cursor)

\* the index never leaves the stream, so an index that grows with every
\* iteration ends the loop after at most len(instr_seq) iterations
InStream == (pc = "analysing") => (cursor \in 0..NumInstr(code))

\* C30: find_jumps terminates on every stream: every iteration of its outer
\* loop starts at an index strictly greater than the one before, also after
\* the index was reset to a loop's exit test, to the start of a true suite
\* or to the next statement, and no index lies past the end of the stream
C30_FindJumpsTerminates == [][Advances]_vars /\ [](InStream)

\* the iteration at a SETUP_LOOP has moved the index to the loop's exit
\* test, past the instructions of the loop condition, and the next iteration
\* starts right after it
C30_Witness ==
    /\ pc = "analysing"
    /\ world.loops # <<>>
    /\ world.loops[Len(world.loops)][2] > world.loops[Len(world.loops)][1] + 1
    /\ cursor = world.loops[Len(world.loops)][2] + 1

====
